---- MODULE Spec2Model ----
(***************************************************************************)
(* A model of creoleparser's parsing engine: fragmentize (core.py), the    *)
(* regular expressions of the wiki elements and their _process / _build    *)
(* methods (elements.py), the fragment store and the escape rules.         *)
(*                                                                         *)
(* Text is a sequence of one-character strings.  Offsets are Python's:     *)
(* 0-based, a span [s, e) is text[s:e].                                    *)
(***************************************************************************)
EXTENDS Integers, Sequences, FiniteSets, TLC

\* ------------------------------------------------------------------ text

\* the set of the items of a sequence
Range(q) == {q[k] : k \in 1..Len(q)}

\* the concatenation of a sequence of sequences
RECURSIVE Flatten(_)
Flatten(ps) == IF ps = << >> THEN << >> ELSE ps[1] \o Flatten(Tail(ps))

\* text[a:b]
Slice(t, a, b) == SubSeq(t, a + 1, b)

\* text[i:i+len(tok)] == tok
StartsAt(t, i, tok) ==
    /\ i >= 0
    /\ i + Len(tok) <= Len(t)
    /\ \A j \in 1..Len(tok) : t[i + j] = tok[j]

MinOf(S) == CHOOSE x \in S : \A y \in S : x <= y
MaxOf(S) == CHOOSE x \in S : \A y \in S : x >= y
\* the smallest of a set of offsets, -1 when there is none
FirstOf(S) == IF S = {} THEN -1 ELSE MinOf(S)

\* the characters \s, \d and [a-zA-Z] stand for, within the model's alphabet
IsSpace(c) == c \in {" ", "\n"}
IsDigit(c) == c \in {"0", "1", "2", "3", "4", "5", "6", "7", "8", "9"}
LowerCase == << "a", "b", "c", "d", "e", "f", "g", "h", "i", "j", "k", "l", "m",
               "n", "o", "p", "q", "r", "s", "t", "u", "v", "w", "x", "y", "z" >>
UpperCase == << "A", "B", "C", "D", "E", "F", "G", "H", "I", "J", "K", "L", "M",
               "N", "O", "P", "Q", "R", "S", "T", "U", "V", "W", "X", "Y", "Z" >>
IsAlpha(c) == \E n \in 1..26 : c = LowerCase[n] \/ c = UpperCase[n]

\* ---------------------------------------------------------- escape model

escape_char == "~"

\* esc_neg_look without the lookbehind
esc_neg_look_off(t, i) == TRUE

\* (?<!~) at offset i: the character before offset i is not the escape character
esc_neg_look(t, i) == i = 0 \/ t[i] # escape_char

\* $ (no MULTILINE) at offset k: the end of the text, or just before a final newline
AtDollar(t, k) == k = Len(t) \/ (k = Len(t) - 1 /\ t[Len(t)] = "\n")

\* EscToRemoveAt without the lookbehind: ~(?!([ \n]|$))
EscToRemoveAt_nolookbehind(t, i) ==
    /\ i < Len(t)
    /\ t[i + 1] = escape_char
    /\ ~ (AtDollar(t, i + 1) \/ t[i + 2] \in {" ", "\n"})

\* the offsets esc_to_remove matches: (?<!~)~(?!([ \n]|$))
EscToRemoveAt(t, i) ==
    /\ i < Len(t)
    /\ t[i + 1] = escape_char
    /\ esc_neg_look(t, i)
    /\ ~ (AtDollar(t, i + 1) \/ t[i + 2] \in {" ", "\n"})

RECURSIVE DropEscapes(_, _)
DropEscapes(t, i) ==
    IF i >= Len(t) THEN << >>
    ELSE (IF EscToRemoveAt(t, i) THEN << >> ELSE << t[i + 1] >>) \o DropEscapes(t, i + 1)

\* esc_to_remove.sub('', text)
esc_to_remove_sub(t) == DropEscapes(t, 0)

\* --------------------------------------------------- regular expressions
\* A match object: the span [s, e), group's content span [cs, ce) and, for
\* SimpleElement, the index of the token that matched (key); s = -1: no match.

NoMatch == [s |-> -1, e |-> -1, cs |-> -1, ce |-> -1, key |-> 0]
Match(s, e, cs, ce, key) == [s |-> s, e |-> e, cs |-> cs, ce |-> ce, key |-> key]
Found(mo) == mo.s >= 0

\* InlineClose with \Z for $: the end alternative matches at the very end only
InlineClose_endonly(t, tok, c) ==
    MinOf({k \in (c + 1)..Len(t) :
              (esc_neg_look(t, k) /\ StartsAt(t, k, tok)) \/ k = Len(t)})

\* the offset where the end alternative ((?<!~)token|$) first matches after
\* at least one character of content (.+?) that starts at offset c
InlineClose(t, tok, c) ==
    MinOf({k \in (c + 1)..Len(t) :
              (esc_neg_look(t, k) /\ StartsAt(t, k, tok)) \/ AtDollar(t, k)})

InlineMatchAt(t, tok, s, key) ==
    IF s < 0 THEN NoMatch ELSE
    LET c == s + Len(tok)
        k == InlineClose(t, tok, c)
    IN  Match(s, IF esc_neg_look(t, k) /\ StartsAt(t, k, tok) THEN k + Len(tok) ELSE k,
              c, k, key)

\* InlineElement.re_string, token a string: (?<!~)token(.+?)((?<!~)token|$)
InlineStarts(t, tok, pos) ==
    {s \in pos..(Len(t) - 1) :
        esc_neg_look(t, s) /\ StartsAt(t, s, tok) /\ s + Len(tok) < Len(t)}

InlineSearch(t, tok, pos) == InlineMatchAt(t, tok, FirstOf(InlineStarts(t, tok, pos)), 0)

\* InlineElement.re_string, token a pair: (?<!~)token[0](.+?)(?<!~)token[1]
PairCloses(t, tok1, c) ==
    {k \in (c + 1)..Len(t) : esc_neg_look(t, k) /\ StartsAt(t, k, tok1)}

PairStarts(t, tok0, tok1, pos) ==
    {s \in pos..(Len(t) - 1) :
        esc_neg_look(t, s) /\ StartsAt(t, s, tok0)
        /\ PairCloses(t, tok1, s + Len(tok0)) # {}}

PairMatchAt(t, tok0, tok1, s) ==
    IF s < 0 THEN NoMatch
    ELSE LET c == s + Len(tok0)
             k == MinOf(PairCloses(t, tok1, c))
         IN  Match(s, k + Len(tok1), c, k, 0)

PairSearch(t, tok0, tok1, pos) ==
    PairMatchAt(t, tok0, tok1, FirstOf(PairStarts(t, tok0, tok1, pos)))

\* SimpleElement.re_string: (?<!~)(tok1|tok2|...)(.+?)((?<!~)\1|$)
\* the alternatives are tried in order at each offset
SimpleTokAt(t, toks, s) ==
    {i \in 1..Len(toks) : StartsAt(t, s, toks[i]) /\ s + Len(toks[i]) < Len(t)}

SimpleStarts(t, toks, pos) ==
    {s \in pos..(Len(t) - 1) : esc_neg_look(t, s) /\ SimpleTokAt(t, toks, s) # {}}

SimpleMatchAt(t, toks, s) ==
    IF s < 0 THEN NoMatch
    ELSE LET i == MinOf(SimpleTokAt(t, toks, s))
         IN  InlineMatchAt(t, toks[i], s, i)

SimpleSearch(t, toks, pos) == SimpleMatchAt(t, toks, FirstOf(SimpleStarts(t, toks, pos)))

\* NoWikiElement.re_string: (?<!~){{{(.+?}*)}}}  (the content is lazy, the run of
\* closing characters after it greedy: the last three of the run close the element)
RECURSIVE RunLen(_, _, _)
RunLen(t, k, c) == IF k < Len(t) /\ t[k + 1] = c THEN 1 + RunLen(t, k + 1, c) ELSE 0

NoWikiCloses(t, tok1, c) ==
    {k \in (c + 1)..Len(t) :
        \E r \in 0..RunLen(t, k, tok1[Len(tok1)]) : StartsAt(t, k + r, tok1)}

NoWikiStarts(t, tok0, tok1, pos) ==
    {s \in pos..(Len(t) - 1) :
        esc_neg_look(t, s) /\ StartsAt(t, s, tok0)
        /\ NoWikiCloses(t, tok1, s + Len(tok0)) # {}}

\* the match that starts at offset s, its content ending at offset k
NoWikiMatchTo(t, tok0, tok1, s, k) ==
    LET r == MaxOf({q \in 0..RunLen(t, k, tok1[Len(tok1)]) : StartsAt(t, k + q, tok1)})
    IN  Match(s, k + r + Len(tok1), s + Len(tok0), k + r, 0)

NoWikiMatchAt(t, tok0, tok1, s) ==
    IF s < 0 THEN NoMatch
    ELSE NoWikiMatchTo(t, tok0, tok1, s, MinOf(NoWikiCloses(t, tok1, s + Len(tok0))))

NoWikiSearch(t, tok0, tok1, pos) ==
    NoWikiMatchAt(t, tok0, tok1, FirstOf(NoWikiStarts(t, tok0, tok1, pos)))

\* macro_name: [a-zA-Z]+([-.]?[a-zA-Z0-9]+)*  -- the offset where the longest name
\* that starts at offset c ends (c itself when no name starts there)
IsNameChar(ch) == IsAlpha(ch) \/ IsDigit(ch)
RECURSIVE NameEnd(_, _)
NameEnd(t, n) ==
    IF n < Len(t) /\ IsNameChar(t[n + 1]) THEN NameEnd(t, n + 1)
    ELSE IF n + 1 < Len(t) /\ t[n + 1] \in {"-", "."} /\ IsNameChar(t[n + 2])
         THEN NameEnd(t, n + 2)
    ELSE n

MacroNameEnd(t, c) == IF c < Len(t) /\ IsAlpha(t[c + 1]) THEN NameEnd(t, c + 1) ELSE c

\* Macro.re_string: (?<!~)<<(name(.*?))(?<!~)>>   (no DOTALL: . is not a newline)
MacroCloses(t, tok1, c) ==
    {k \in MacroNameEnd(t, c)..Len(t) :
        /\ esc_neg_look(t, k) /\ StartsAt(t, k, tok1)
        /\ \A j \in (MacroNameEnd(t, c) + 1)..k : t[j] # "\n"}

MacroStarts(t, tok0, tok1, pos) ==
    {s \in pos..(Len(t) - 1) :
        /\ esc_neg_look(t, s) /\ StartsAt(t, s, tok0)
        /\ MacroNameEnd(t, s + Len(tok0)) > s + Len(tok0)
        /\ MacroCloses(t, tok1, s + Len(tok0)) # {}}

\* cs..ce is group(1), the name and the argument string; key is the length of the name
MacroMatchAt(t, tok0, tok1, s) ==
    IF s < 0 THEN NoMatch ELSE
    LET k == MinOf(MacroCloses(t, tok1, s + Len(tok0)))
    IN  Match(s, k + Len(tok1), s + Len(tok0), k,
              MacroNameEnd(t, s + Len(tok0)) - (s + Len(tok0)))

MacroSearch(t, tok0, tok1, pos) ==
    MacroMatchAt(t, tok0, tok1, FirstOf(MacroStarts(t, tok0, tok1, pos)))

\* ^ with MULTILINE
LineStart(t, s) == s = 0 \/ t[s] = "\n"

\* the offset where the run of whitespace that starts at offset s ends
RECURSIVE WsRunEnd(_, _)
WsRunEnd(t, s) == IF s < Len(t) /\ IsSpace(t[s + 1]) THEN WsRunEnd(t, s + 1) ELSE s

NewlinesIn(t, a, b) == {j \in a..(b - 1) : t[j + 1] = "\n"}

\* BlankLine.re_string: ^(\s*\n)+  (MULTILINE)
BlankStarts(t, pos) ==
    {s \in pos..(Len(t) - 1) : LineStart(t, s) /\ NewlinesIn(t, s, WsRunEnd(t, s)) # {}}

BlankMatchAt(t, s) ==
    IF s < 0 THEN NoMatch
    ELSE LET e == MaxOf(NewlinesIn(t, s, WsRunEnd(t, s))) + 1
         IN  Match(s, e, s, e, 0)

BlankSearch(t, pos) == BlankMatchAt(t, FirstOf(BlankStarts(t, pos)))

\* LoneElement.re_string: ^(\s*?token\s*?\n)  (DOTALL, MULTILINE)
LoneTail(t, a) == {m \in a..(Len(t) - 1) : t[m + 1] = "\n" /\ WsRunEnd(t, a) >= m}

LoneStarts(t, tok, pos) ==
    {s \in pos..(Len(t) - 1) :
        /\ LineStart(t, s)
        /\ StartsAt(t, WsRunEnd(t, s), tok)
        /\ LoneTail(t, WsRunEnd(t, s) + Len(tok)) # {}}

LoneMatchAt(t, tok, s) ==
    IF s < 0 THEN NoMatch
    ELSE LET e == MinOf(LoneTail(t, WsRunEnd(t, s) + Len(tok))) + 1
         IN  Match(s, e, s, e, 0)

LoneSearch(t, tok, pos) == LoneMatchAt(t, tok, FirstOf(LoneStarts(t, tok, pos)))

\* Paragraph.re_string: ^(.*)\n  (DOTALL, MULTILINE)
ParaStarts(t, pos) ==
    {s \in pos..(Len(t) - 1) : LineStart(t, s) /\ NewlinesIn(t, s, Len(t)) # {}}

ParaMatchAt(t, s) ==
    IF s < 0 THEN NoMatch
    ELSE LET n == MaxOf(NewlinesIn(t, s, Len(t)))
         IN  Match(s, n + 1, s, n, 0)

ParaSearch(t, pos) == ParaMatchAt(t, FirstOf(ParaStarts(t, pos)))

\* ---------------------------------------------------------------- headings

\* [ \t]
IsBlankTab(c) == c \in {" ", "\t"}

RECURSIVE BlankRunEnd(_, _)
BlankRunEnd(t, s) == IF s < Len(t) /\ IsBlankTab(t[s + 1]) THEN BlankRunEnd(t, s + 1) ELSE s

\* \n at offset k; with atend, (\n|\Z): the end of the text will do as well
HeadingLineEnd(t, k, atend) == (k < Len(t) /\ t[k + 1] = "\n") \/ (atend /\ k = Len(t))

\* [ \t]*(=+[ \t]*)?\n at offset x: the end of that white space and run of
\* tokens where the line ends there (-1: it does not)
HeadingRest(t, tok, x, atend) ==
    LET w == BlankRunEnd(t, x)
        q == RunLen(t, w, tok)
        w2 == BlankRunEnd(t, w + q)
    IN  IF q > 0 /\ HeadingLineEnd(t, w2, atend) THEN w2
        ELSE IF HeadingLineEnd(t, w, atend) THEN w
        ELSE -1

\* the ends (.*?) can have when it starts at offset c
HeadingContentEnds(t, tok, c, atend) ==
    {x \in c..Len(t) : /\ \A k \in (c + 1)..x : t[k] # "\n"
                       /\ HeadingRest(t, tok, x, atend) >= 0}

\* the number of tokens (=){1,ntags} takes at offset a
HeadingTokens(t, tok, ntags, a) ==
    IF RunLen(t, a, tok) > ntags THEN ntags ELSE RunLen(t, a, tok)

\* where the content starts in a match that starts at offset s
HeadingContentStart(t, tok, ntags, s) ==
    BlankRunEnd(t, BlankRunEnd(t, s) + HeadingTokens(t, tok, ntags, BlankRunEnd(t, s)))

\* Heading.re_string (MULTILINE):
\*   ^[ \t]*(={1,6})[ \t]*(.*?)[ \t]*(=+[ \t]*)?\n        elements.py
\*   ^[ \t]*(={1,6})[ \t]*(.*?)[ \t]*(=+[ \t]*)?(\n|\Z)   trunk elements.py
HeadingStarts(t, tok, ntags, pos, atend) ==
    {s \in pos..(Len(t) - 1) :
        /\ LineStart(t, s)
        /\ HeadingTokens(t, tok, ntags, BlankRunEnd(t, s)) > 0
        /\ HeadingContentEnds(t, tok, HeadingContentStart(t, tok, ntags, s), atend) # {}}

\* cs..ce is group(2), the content; key is len(group(1)), the number of tokens
HeadingMatchOf(t, s, c, x, r, n) == Match(s, IF r < Len(t) THEN r + 1 ELSE r, c, x, n)
HeadingMatchTo(t, tok, ntags, s, c, x, atend) ==
    HeadingMatchOf(t, s, c, x, HeadingRest(t, tok, x, atend),
                   HeadingTokens(t, tok, ntags, BlankRunEnd(t, s)))
HeadingMatchFrom(t, tok, ntags, s, c, atend) ==
    HeadingMatchTo(t, tok, ntags, s, c, MinOf(HeadingContentEnds(t, tok, c, atend)), atend)
HeadingMatchAt(t, tok, ntags, s, atend) ==
    IF s < 0 THEN NoMatch ELSE
    HeadingMatchFrom(t, tok, ntags, s, HeadingContentStart(t, tok, ntags, s), atend)

HeadingSearch(t, tok, ntags, pos, atend) ==
    HeadingMatchAt(t, tok, ntags, FirstOf(HeadingStarts(t, tok, ntags, pos, atend)), atend)

\* ------------------------------------------------------- macros with a body

\* the closing tag of the macro called name: '<<' + '/' + name + '>>'
CloseTag(tok0, tok1, name) == tok0 \o << "/" >> \o name \o tok1

\* [ \S]: a space, or a character that is not whitespace
IsArgChar(ch) == ch = " " \/ ~ IsSpace(ch)

\* the offsets where a name that starts at offset c can end: the regular
\* expression tries the longest first and backs off to the shorter ones
NameEnds(t, c) == {n \in (c + 1)..MacroNameEnd(t, c) : IsNameChar(t[n])}

\* BodiedMacro.re_string (DOTALL):
\* (?<!~)<<name([ \S]*?)(?<!~)>>(.+)(?<!~)<</(?P=name)>>
\* the offsets where the '>>' of the opening tag can stand after a name that ends at n
BodiedArgEnds(t, tok1, n) ==
    {k \in n..Len(t) :
        /\ esc_neg_look(t, k) /\ StartsAt(t, k, tok1)
        /\ \A j \in (n + 1)..k : IsArgChar(t[j])}

\* the offsets at or after offset from where the closing tag stands
BodiedCloses(t, tag, from) ==
    {c \in from..Len(t) : esc_neg_look(t, c) /\ StartsAt(t, c, tag)}

\* the name ends at n: the argument string is the shortest, the body the longest
BodiedFits(t, tok0, tok1, s, n) ==
    /\ BodiedArgEnds(t, tok1, n) # {}
    /\ BodiedCloses(t, CloseTag(tok0, tok1, Slice(t, s + Len(tok0), n)),
                    MinOf(BodiedArgEnds(t, tok1, n)) + Len(tok1) + 1) # {}

BodiedStarts(t, tok0, tok1, pos) ==
    {s \in pos..(Len(t) - 1) :
        /\ esc_neg_look(t, s) /\ StartsAt(t, s, tok0)
        /\ \E n \in NameEnds(t, s + Len(tok0)) : BodiedFits(t, tok0, tok1, s, n)}

\* cs..ce is group('body'); key is the length of the name
\* the match that starts at offset s with a name that ends at n, an opening
\* tag that closes at k and the closing tag at c
BodiedMatchOf(t, tok0, tok1, s, n, k, c) ==
    Match(s, c + Len(CloseTag(tok0, tok1, Slice(t, s + Len(tok0), n))), k + Len(tok1), c,
          n - s - Len(tok0))
BodiedMatchTo(t, tok0, tok1, s, n, k) ==
    BodiedMatchOf(t, tok0, tok1, s, n, k,
                  MaxOf(BodiedCloses(t, CloseTag(tok0, tok1, Slice(t, s + Len(tok0), n)),
                                     k + Len(tok1) + 1)))
BodiedMatchNamed(t, tok0, tok1, s, n) ==
    BodiedMatchTo(t, tok0, tok1, s, n, MinOf(BodiedArgEnds(t, tok1, n)))
BodiedMatchAt(t, tok0, tok1, s) ==
    IF s < 0 THEN NoMatch ELSE
    BodiedMatchNamed(t, tok0, tok1, s,
        MaxOf({m \in NameEnds(t, s + Len(tok0)) : BodiedFits(t, tok0, tok1, s, m)}))

BodiedSearch(t, tok0, tok1, pos) ==
    BodiedMatchAt(t, tok0, tok1, FirstOf(BodiedStarts(t, tok0, tok1, pos)))

\* BodiedMacro._build: start + '|' + end, matched at offset p of the body
\* start: (?<!~)<<name([ \S]*?)>>      end: (?<!~)<</name>>
\* the offset where the match ends, -1 when there is none
BodiedOpenAt(b, tok0, tok1, name, p) ==
    LET n == p + Len(tok0) + Len(name)
        ks == {k \in n..Len(b) : StartsAt(b, k, tok1) /\ \A j \in (n + 1)..k : IsArgChar(b[j])}
    IN  IF esc_neg_look(b, p) /\ StartsAt(b, p, tok0 \o name) /\ ks # {}
        THEN MinOf(ks) + Len(tok1) ELSE -1

BodiedCloseAt(b, tok0, tok1, name, p) ==
    IF esc_neg_look(b, p) /\ StartsAt(b, p, CloseTag(tok0, tok1, name))
    THEN p + Len(CloseTag(tok0, tok1, name)) ELSE -1

\* the for loop over re.finditer(start + '|' + end, body): where the body is
\* cut (count > 0), [cut |-> -1] when the loop ends without break
NoCut == [cut |-> -1, after |-> -1]
\* BodiedScan cutting the body at the first closing tag, whatever the count
RECURSIVE BodiedScan_firstclose(_, _, _, _, _, _)
BodiedScan_firstclose(b, tok0, tok1, name, p, count) ==
    IF p >= Len(b) THEN NoCut
    ELSE LET o == BodiedOpenAt(b, tok0, tok1, name, p)
             c == BodiedCloseAt(b, tok0, tok1, name, p)
         IN  IF o >= 0 THEN BodiedScan_firstclose(b, tok0, tok1, name, o, count - 1)
             ELSE IF c >= 0 THEN [cut |-> p, after |-> c]
             ELSE BodiedScan_firstclose(b, tok0, tok1, name, p + 1, count)

RECURSIVE BodiedScan(_, _, _, _, _, _)
BodiedScan(b, tok0, tok1, name, p, count) ==
    IF p >= Len(b) THEN NoCut
    ELSE LET o == BodiedOpenAt(b, tok0, tok1, name, p)
             c == BodiedCloseAt(b, tok0, tok1, name, p)
         IN  IF o >= 0 THEN BodiedScan(b, tok0, tok1, name, o, count - 1)
             ELSE IF c >= 0 THEN (IF count + 1 > 0 THEN [cut |-> p, after |-> c]
                                  ELSE BodiedScan(b, tok0, tok1, name, c, count + 1))
             ELSE BodiedScan(b, tok0, tok1, name, p + 1, count)

\* BodiedBlockMacro.re_string (DOTALL, MULTILINE):
\* ^<<(name((?![^\n]*>>[^\n]*>>)[ \S]*?))>>\s*?\n(.*\n)<</(?P=name)>>\s*?\n
\* the offset where the line that holds offset n ends
RECURSIVE LineEnd(_, _)
LineEnd(t, n) == IF n < Len(t) /\ t[n + 1] # "\n" THEN LineEnd(t, n + 1) ELSE n

\* [^\n]*>>[^\n]*>> matches at offset n
TwoCloses(t, tok1, n) ==
    \E k1 \in n..LineEnd(t, n) : \E k2 \in (k1 + Len(tok1))..LineEnd(t, n) :
       StartsAt(t, k1, tok1) /\ StartsAt(t, k2, tok1)

\* the offsets where the '>>' of the opening tag can stand: \s*?\n follows
BlockArgEnds(t, tok1, n) ==
    {k \in n..Len(t) :
        /\ StartsAt(t, k, tok1)
        /\ \A j \in (n + 1)..k : IsArgChar(t[j])
        /\ LoneTail(t, k + Len(tok1)) # {}}

\* the offsets at or after offset from where the closing tag stands at the
\* start of a line, with \s*?\n after it
BlockCloses(t, tag, from) ==
    {c \in from..Len(t) :
        /\ c > 0 /\ t[c] = "\n"
        /\ StartsAt(t, c, tag)
        /\ LoneTail(t, c + Len(tag)) # {}}

\* the offset where the body starts when the '>>' of the opening tag is at k
BlockBodyStart(t, tok1, k) == MinOf(LoneTail(t, k + Len(tok1))) + 1

\* the '>>' of the opening tag at k, the name ending at n
BlockFitsAt(t, tok0, tok1, s, n, k) ==
    BlockCloses(t, CloseTag(tok0, tok1, Slice(t, s + Len(tok0), n)),
                BlockBodyStart(t, tok1, k) + 1) # {}

BlockFits(t, tok0, tok1, s, n) ==
    /\ ~ TwoCloses(t, tok1, n)
    /\ \E k \in BlockArgEnds(t, tok1, n) : BlockFitsAt(t, tok0, tok1, s, n, k)

BlockMacroStarts(t, tok0, tok1, pos) ==
    {s \in pos..(Len(t) - 1) :
        /\ LineStart(t, s) /\ StartsAt(t, s, tok0)
        /\ \E n \in NameEnds(t, s + Len(tok0)) : BlockFits(t, tok0, tok1, s, n)}

\* the name and the '>>' of the opening tag of the match that starts at s
BlockNameEnd(t, tok0, tok1, s) ==
    MaxOf({m \in NameEnds(t, s + Len(tok0)) : BlockFits(t, tok0, tok1, s, m)})
BlockArgEnd(t, tok0, tok1, s) ==
    LET n == BlockNameEnd(t, tok0, tok1, s) IN
    MinOf({k \in BlockArgEnds(t, tok1, n) : BlockFitsAt(t, tok0, tok1, s, n, k)})

\* cs..ce is group('body'); key is the length of the name
\* the match that starts at offset s with a name that ends at n, a body that
\* starts at cs and the closing tag at c
BlockMatchOf(t, tok0, tok1, s, n, cs, c) ==
    Match(s, MinOf(LoneTail(t, c + Len(CloseTag(tok0, tok1, Slice(t, s + Len(tok0), n))))) + 1,
          cs, c, n - s - Len(tok0))
BlockMatchFrom(t, tok0, tok1, s, n, cs) ==
    BlockMatchOf(t, tok0, tok1, s, n, cs,
                 MaxOf(BlockCloses(t, CloseTag(tok0, tok1, Slice(t, s + Len(tok0), n)), cs + 1)))
BlockMatchAt(t, tok0, tok1, s) ==
    IF s < 0 THEN NoMatch ELSE
    BlockMatchFrom(t, tok0, tok1, s, BlockNameEnd(t, tok0, tok1, s),
                   BlockBodyStart(t, tok1, BlockArgEnd(t, tok0, tok1, s)))

BlockMacroSearch(t, tok0, tok1, pos) ==
    BlockMatchAt(t, tok0, tok1, FirstOf(BlockMacroStarts(t, tok0, tok1, pos)))

\* BodiedBlockMacro._build: start + '|' + end (MULTILINE), matched at offset p
\* of the body
\* start: ^<<name((?![^\n]*>>[^\n]*>>)[ \S]*?)>>\s*?\n      end: ^<</name>>\s*?\n
BlockOpenAt(b, tok0, tok1, name, p) ==
    LET n == p + Len(tok0) + Len(name)
        ks == BlockArgEnds(b, tok1, n)
    IN  IF LineStart(b, p) /\ StartsAt(b, p, tok0 \o name) /\ ~ TwoCloses(b, tok1, n) /\ ks # {}
        THEN MinOf(LoneTail(b, MinOf(ks) + Len(tok1))) + 1 ELSE -1

BlockCloseAt(b, tok0, tok1, name, p) ==
    LET tag == CloseTag(tok0, tok1, name) IN
    IF LineStart(b, p) /\ StartsAt(b, p, tag) /\ LoneTail(b, p + Len(tag)) # {}
    THEN MinOf(LoneTail(b, p + Len(tag))) + 1 ELSE -1

RECURSIVE BlockScan(_, _, _, _, _, _)
BlockScan(b, tok0, tok1, name, p, count) ==
    IF p >= Len(b) THEN NoCut
    ELSE LET o == BlockOpenAt(b, tok0, tok1, name, p)
             c == BlockCloseAt(b, tok0, tok1, name, p)
         IN  IF o >= 0 THEN BlockScan(b, tok0, tok1, name, o, count - 1)
             ELSE IF c >= 0 THEN (IF count + 1 > 0 THEN [cut |-> p, after |-> c]
                                  ELSE BlockScan(b, tok0, tok1, name, c, count + 1))
             ELSE BlockScan(b, tok0, tok1, name, p + 1, count)

\* ------------------------------------------------------- links and images

\* \w and [a-zA-Z0-9]
IsAlnum(c) == IsAlpha(c) \/ IsDigit(c)
IsWord(c) == IsAlnum(c) \/ c = "_"

\* str.lower() of one character
Lower(c) == IF \E n \in 1..26 : c = UpperCase[n]
            THEN LowerCase[CHOOSE n \in 1..26 : c = UpperCase[n]] ELSE c

SAFE_SCHEMES ==
    { << "f", "i", "l", "e" >>, << "f", "t", "p" >>, << "h", "t", "t", "p" >>,
      << "h", "t", "t", "p", "s" >>, << "m", "a", "i", "l", "t", "o" >> }

\* [char for char in s if char.isalnum()], lowered
RECURSIVE AlnumLower(_)
AlnumLower(s) ==
    IF s = << >> THEN << >>
    ELSE (IF IsAlnum(s[1]) THEN << Lower(s[1]) >> ELSE << >>) \o AlnumLower(Tail(s))

\* HTMLSanitizer.is_safe_uri: a URI with no colon is relative and safe; otherwise
\* the scheme, uri.split(':', 1)[0] without what is not alphanumeric and in
\* lower case, must be one of SAFE_SCHEMES
is_safe_uri(uri) ==
    LET colons == {k \in 1..Len(uri) : uri[k] = ":"} IN
    IF colons = {} THEN TRUE
    ELSE AlnumLower(Slice(uri, 0, MinOf(colons) - 1)) \in SAFE_SCHEMES

unsafe_uri_detected ==
    << "u", "n", "s", "a", "f", "e", "_", "u", "r", "i", "_",
       "d", "e", "t", "e", "c", "t", "e", "d" >>

\* RawLink.re_string:
\*   (~)?((https?|ftp)://\S+?)(?=([>)}\]]?[,.?!:;"']?(([^a-zA-Z0-9])\6)?(\s|$))|<<<)
\* the length of (https?|ftp):// at offset j (0: it is not there)
RawProtocol(t, j) ==
    IF StartsAt(t, j, << "h", "t", "t", "p", "s", ":", "/", "/" >>) THEN 8
    ELSE IF StartsAt(t, j, << "h", "t", "t", "p", ":", "/", "/" >>) THEN 7
    ELSE IF StartsAt(t, j, << "f", "t", "p", ":", "/", "/" >>) THEN 6
    ELSE 0

\* the look-ahead at offset p
RawLookAhead(t, p) ==
    \/ StartsAt(t, p, << "<", "<", "<" >>)
    \/ \E a \in {0, 1}, b \in {0, 1}, c \in {0, 2} :
          LET q == p + a + b + c IN
          /\ q <= Len(t)
          /\ a = 1 => t[p + 1] \in {">", ")", "}", "]"}
          /\ b = 1 => t[p + a + 1] \in {",", ".", "?", "!", ":", ";", "\"", "'"}
          /\ c = 2 => ~ IsAlnum(t[p + a + b + 1]) /\ t[p + a + b + 2] = t[p + a + b + 1]
          /\ q = Len(t) \/ IsSpace(t[q + 1])

\* the ends \S+? can have for a URL whose protocol ends at offset u
RawUrlEnds(t, u) ==
    {n \in (u + 1)..Len(t) : /\ \A k \in (u + 1)..n : ~ IsSpace(t[k])
                             /\ RawLookAhead(t, n)}

RawUrlAt(t, j) == RawProtocol(t, j) > 0 /\ RawUrlEnds(t, j + RawProtocol(t, j)) # {}

\* the offset of the URL of a match that starts at s: after the escape
\* character if (~)? has taken one
RawUrlStart(t, s) ==
    IF s < Len(t) /\ t[s + 1] = escape_char /\ RawUrlAt(t, s + 1) THEN s + 1 ELSE s

RawStarts(t, pos) == {s \in pos..(Len(t) - 1) : RawUrlAt(t, RawUrlStart(t, s))}

\* cs..ce is group(2), the URL; key is 1 when group(1), the escape character,
\* is there
RawLinkMatchOf(s, j, e) == Match(s, e, j, e, j - s)
RawLinkMatchFrom(t, s, j) == RawLinkMatchOf(s, j, MinOf(RawUrlEnds(t, j + RawProtocol(t, j))))
RawLinkMatchAt(t, s) ==
    IF s < 0 THEN NoMatch ELSE RawLinkMatchFrom(t, s, RawUrlStart(t, s))

RawLinkSearch(t, pos) == RawLinkMatchAt(t, FirstOf(RawStarts(t, pos)))

\* Image: InlineElement.re_string compiled without DOTALL, so that (.+?) stops
\* at a newline
ImageStarts(t, tok0, tok1, pos) ==
    {s \in PairStarts(t, tok0, tok1, pos) :
        LET c == s + Len(tok0) IN
        \A k \in (c + 1)..MinOf(PairCloses(t, tok1, c)) : t[k] # "\n"}

ImageSearch(t, tok0, tok1, pos) ==
    PairMatchAt(t, tok0, tok1, FirstOf(ImageStarts(t, tok0, tok1, pos)))

\* The patterns of the link types are searched in the content of a link, and
\* all begin with ^: a match starts at offset 0.  A match is the record of its
\* groups: the target (URL or page name), the wiki name, whether the alias
\* group is there, the alias text, and the end of the match.
NoLink == [found |-> FALSE, target |-> << >>, wiki |-> << >>, bar |-> FALSE,
           alias |-> << >>, e |-> -1]
LinkMatch(target, wiki, bar, alias, e) ==
    [found |-> TRUE, target |-> target, wiki |-> wiki, bar |-> bar, alias |-> alias, e |-> e]

RECURSIVE SpRunEnd(_, _)
SpRunEnd(c, s) == IF s < Len(c) /\ c[s + 1] = " " THEN SpRunEnd(c, s + 1) ELSE s

RECURSIVE WordRunEnd(_, _)
WordRunEnd(c, s) == IF s < Len(c) /\ IsWord(c[s + 1]) THEN WordRunEnd(c, s + 1) ELSE s

\* where $ matches once " *" has run from offset x: the end of the string
\* or just before a newline that ends it (-1: nowhere)
DollarAfter(c, x) ==
    LET q == SpRunEnd(c, x) IN
    IF q = Len(c) \/ (q = Len(c) - 1 /\ c[Len(c)] = "\n") THEN q ELSE -1

\* the ends (.*?) can have when it starts at offset w: what follows is " *$"
AliasEnds(c, w, dotall) ==
    {x \in w..Len(c) : /\ DollarAfter(c, x) >= 0
                       /\ dotall \/ \A k \in (w + 1)..x : c[k] # "\n"}

\* (\| *(.*?))? *$ at offset q, where the white space before it has ended
TailFits(c, q, dotall) ==
    IF q < Len(c) /\ c[q + 1] = "|" THEN AliasEnds(c, SpRunEnd(c, q + 1), dotall) # {}
    ELSE DollarAfter(c, q) >= 0

HasBar(c, q) == q < Len(c) /\ c[q + 1] = "|"

AliasOf(c, q, dotall) ==
    IF HasBar(c, q)
    THEN Slice(c, SpRunEnd(c, q + 1), MinOf(AliasEnds(c, SpRunEnd(c, q + 1), dotall)))
    ELSE << >>

MatchEnd(c, q, dotall) ==
    IF HasBar(c, q) THEN DollarAfter(c, MinOf(AliasEnds(c, SpRunEnd(c, q + 1), dotall)))
    ELSE DollarAfter(c, q)

\* URLLink.re_string (DOTALL): ^\s*((\w+?:|/)[\S\n]*?)\s*(\| *(.*?))? *$
\* the offset after (\w+?:|/) when it starts at offset a (-1: it does not)
UrlProtocolEnd(c, a) ==
    IF a < Len(c) /\ c[a + 1] = "/" THEN a + 1
    ELSE IF WordRunEnd(c, a) > a /\ WordRunEnd(c, a) < Len(c) /\ c[WordRunEnd(c, a) + 1] = ":"
         THEN WordRunEnd(c, a) + 1
    ELSE -1

UrlEnds(c, u0) ==
    {u \in u0..Len(c) : /\ \A k \in (u0 + 1)..u : ~ IsSpace(c[k]) \/ c[k] = "\n"
                        /\ TailFits(c, WsRunEnd(c, u), TRUE)}

URLLinkSearch(c) ==
    LET a == WsRunEnd(c, 0)
        u0 == UrlProtocolEnd(c, a)
    IN  IF u0 < 0 \/ UrlEnds(c, u0) = {} THEN NoLink
        ELSE LET u == MinOf(UrlEnds(c, u0))
                 q == WsRunEnd(c, u)
             IN  LinkMatch(Slice(c, a, u), << >>, HasBar(c, q), AliasOf(c, q, TRUE),
                           MatchEnd(c, q, TRUE))

\* the ends of a run of \S that starts at offset p
WordsFrom(c, p) == {m \in (p + 1)..Len(c) : \A k \in (p + 1)..m : ~ IsSpace(c[k])}

\* InterWikiLink.re_string: ^ *(\w+) *: *(\S+?( \S+?)*) *(\| *(.*?))? *$
\* The end of the page name when one \S+? has ended at offset p: the star is
\* greedy, so one more " \S+?" is tried before the rest of the pattern
RECURSIVE InterWikiPageEnd(_, _)
InterWikiPageEnd(c, p) ==
    LET more == IF p < Len(c) /\ c[p + 1] = " "
                THEN {m \in WordsFrom(c, p + 1) : InterWikiPageEnd(c, m) >= 0}
                ELSE {}
    IN  IF more # {} THEN InterWikiPageEnd(c, MinOf(more))
        ELSE IF TailFits(c, SpRunEnd(c, p), FALSE) THEN p ELSE -1

InterWikiSearch(c) ==
    LET a == SpRunEnd(c, 0)
        b == WordRunEnd(c, a)
        d == SpRunEnd(c, b)
        p0 == SpRunEnd(c, d + 1)
        firsts == {m \in WordsFrom(c, p0) : InterWikiPageEnd(c, m) >= 0}
    IN  IF b = a \/ d >= Len(c) \/ c[d + 1] # ":" \/ firsts = {} THEN NoLink
        ELSE LET p == InterWikiPageEnd(c, MinOf(firsts))
                 q == SpRunEnd(c, p)
             IN  LinkMatch(Slice(c, p0, p), Slice(c, a, b), HasBar(c, q),
                           AliasOf(c, q, FALSE), MatchEnd(c, q, FALSE))

\* WikiLink.re_string: ^ *(\S+?( \S+?)*?) *(\| *(.*?))? *$
\* the star is lazy: the rest of the pattern is tried before one more " \S+?"
RECURSIVE WikiPageEnd(_, _)
WikiPageEnd(c, p) ==
    LET more == IF p < Len(c) /\ c[p + 1] = " "
                THEN {m \in WordsFrom(c, p + 1) : WikiPageEnd(c, m) >= 0}
                ELSE {}
    IN  IF TailFits(c, SpRunEnd(c, p), FALSE) THEN p
        ELSE IF more # {} THEN WikiPageEnd(c, MinOf(more)) ELSE -1

WikiLinkSearch(c) ==
    LET a == SpRunEnd(c, 0)
        firsts == {m \in WordsFrom(c, a) : WikiPageEnd(c, m) >= 0}
    IN  IF firsts = {} THEN NoLink
        ELSE LET p == WikiPageEnd(c, MinOf(firsts))
                 q == SpRunEnd(c, p)
             IN  LinkMatch(Slice(c, a, p), << >>, HasBar(c, q), AliasOf(c, q, FALSE),
                           MatchEnd(c, q, FALSE))

\* urllib.quote: letters, digits and _ . - / stay, any other character becomes
\* % and its code
QuoteCodes ==
    (":" :> << "3", "A" >>) @@ ("|" :> << "7", "C" >>) @@ ("~" :> << "7", "E" >>)
    @@ ("[" :> << "5", "B" >>) @@ ("]" :> << "5", "D" >>) @@ ("{" :> << "7", "B" >>)
    @@ ("}" :> << "7", "D" >>) @@ ("*" :> << "2", "A" >>) @@ ("<" :> << "3", "C" >>)
    @@ (">" :> << "3", "E" >>) @@ ("%" :> << "2", "5" >>)

RECURSIVE Quote(_)
Quote(s) ==
    IF s = << >> THEN << >>
    ELSE (IF IsAlnum(s[1]) \/ s[1] \in {"_", ".", "-", "/"} THEN << s[1] >>
          ELSE << "%" >> \o QuoteCodes[s[1]]) \o Quote(Tail(s))

\* page_name: mo.group(...).replace(' ', space_char)
PageName(s, space_char) == [k \in 1..Len(s) |-> IF s[k] = " " THEN space_char ELSE s[k]]

\* the dialect's interwiki_links_base_urls: one wiki, w, at http://w/
KnownWikis == {<< "w" >>}
BaseScheme == << "h", "t", "t", "p" >>
BaseNetloc == << "w" >>
BasePath == << "/" >>
SchemeSep == << ":", "/", "/" >>

\* urlparse.urljoin(base_url, url) for a url that has no scheme, query or
\* fragment and no dot segments, as quote() leaves it
UrlJoin(url) ==
    LET base == BaseScheme \o SchemeSep \o BaseNetloc \o BasePath
        root == BaseScheme \o SchemeSep \o BaseNetloc
        dirs == {k \in 1..Len(BasePath) : BasePath[k] = "/"}
    IN  IF url = << >> THEN base
        ELSE IF StartsAt(url, 0, << "/", "/" >>)
        THEN LET sl == {k \in 3..Len(url) : url[k] = "/"}
                 ne == IF sl = {} THEN Len(url) ELSE MinOf(sl) - 1
             IN  IF ne > 2 THEN BaseScheme \o << ":" >> \o url
                 ELSE IF ne < Len(url) THEN root \o Slice(url, ne, Len(url))
                 ELSE base
        ELSE IF url[1] = "/" THEN root \o url
        ELSE root \o Slice(BasePath, 0, MaxOf(dirs)) \o url

\* URLLink.href: None (here the empty string) for a URI that is not safe
URLLinkHref(m) == IF is_safe_uri(m.target) THEN m.target ELSE << >>

\* InterWikiLink.href with a base url for every wiki name
InterWikiHref_anywiki(m) == UrlJoin(Quote(PageName(m.target, "_")))

\* InterWikiLink.href: None (the empty string) for a wiki that has no base url
InterWikiHref(m) ==
    IF m.wiki \in KnownWikis THEN UrlJoin(Quote(PageName(m.target, "_"))) ELSE << >>

\* WikiLink.href, with the default wiki_links_base_url ''
WikiLinkHref(m) == Quote(PageName(m.target, "_"))

\* place_holder_re: <<<(-?\d+?)>>>   -- cs..ce is group(1), the id
PhOpen == << "<", "<", "<" >>
PhClose == << ">", ">", ">" >>

RECURSIVE DigitsEnd(_, _)
DigitsEnd(t, k) == IF k < Len(t) /\ IsDigit(t[k + 1]) THEN DigitsEnd(t, k + 1) ELSE k

PhIdStart(t, s) == IF StartsAt(t, s + 3, << "-" >>) THEN s + 4 ELSE s + 3

PhStarts(t, pos) ==
    {s \in pos..(Len(t) - 1) :
        /\ StartsAt(t, s, PhOpen)
        /\ DigitsEnd(t, PhIdStart(t, s)) > PhIdStart(t, s)
        /\ StartsAt(t, DigitsEnd(t, PhIdStart(t, s)), PhClose)}

PhMatchAt(t, s) ==
    IF s < 0 THEN NoMatch
    ELSE LET k == DigitsEnd(t, PhIdStart(t, s))
         IN  Match(s, k + 3, s + 3, k, 0)

place_holder_search(t, pos) == PhMatchAt(t, FirstOf(PhStarts(t, pos)))

\* ------------------------------------------------------- preformatted blocks
\* PreBlock.re_string: ^{{{\s*?\n(.+?\n)}}}\s*?\n  (DOTALL, MULTILINE)

\* where the content can start: after a newline that ends the run of whitespace
\* behind the opening token at offset s
PreOpens(t, tok0, s) == {m + 1 : m \in LoneTail(t, s + Len(tok0))}

\* where the content that starts at offset a can end: at a closing token that
\* follows a newline and is followed by whitespace and a newline
PreCloses(t, tok1, a) ==
    {k \in (a + 2)..Len(t) :
        t[k] = "\n" /\ StartsAt(t, k, tok1) /\ LoneTail(t, k + Len(tok1)) # {}}

PreFits(t, tok0, tok1, s) == {a \in PreOpens(t, tok0, s) : PreCloses(t, tok1, a) # {}}

PreStarts(t, tok0, tok1, pos) ==
    {s \in pos..(Len(t) - 1) :
        LineStart(t, s) /\ StartsAt(t, s, tok0) /\ PreFits(t, tok0, tok1, s) # {}}

PreMatchTo(t, tok1, s, a, k) ==
    Match(s, MinOf(LoneTail(t, k + Len(tok1))) + 1, a, k, 0)
PreMatchFrom(t, tok1, s, a) == PreMatchTo(t, tok1, s, a, MinOf(PreCloses(t, tok1, a)))
PreMatchAt(t, tok0, tok1, s) ==
    IF s < 0 THEN NoMatch ELSE PreMatchFrom(t, tok1, s, MinOf(PreFits(t, tok0, tok1, s)))

PreSearch(t, tok0, tok1, pos) == PreMatchAt(t, tok0, tok1, FirstOf(PreStarts(t, tok0, tok1, pos)))

\* PreBlock.re_string2: ^ (\s*?}}}\s*?\n)  (MULTILINE): the offsets of the
\* newline that can end a match that starts with the space at offset s
Pre2Ends(c, tok1, s) ==
    UNION {LoneTail(c, w + Len(tok1)) :
              w \in {x \in (s + 1)..WsRunEnd(c, s + 1) : StartsAt(c, x, tok1)}}

Pre2Starts(c, tok1) ==
    {s \in 0..(Len(c) - 1) : LineStart(c, s) /\ c[s + 1] = " " /\ Pre2Ends(c, tok1, s) # {}}

\* the end of the match that starts at s: the first closing token behind the
\* whitespace, then the first newline behind its whitespace
Pre2End(c, tok1, s) ==
    MinOf(LoneTail(c, MinOf({x \in (s + 1)..WsRunEnd(c, s + 1) :
                                /\ StartsAt(c, x, tok1)
                                /\ LoneTail(c, x + Len(tok1)) # {}}) + Len(tok1))) + 1

\* regexp2.sub(r'\1', content): every match loses its first character
RECURSIVE regexp2_sub(_, _)
regexp2_sub_from(c, tok1, s) ==
    IF s < 0 THEN c
    ELSE Slice(c, 0, s) \o Slice(c, s + 1, Pre2End(c, tok1, s))
         \o regexp2_sub(Slice(c, Pre2End(c, tok1, s), Len(c)), tok1)
\* regexp2_sub that leaves the content as it is
regexp2_sub_keep(c, tok1) == c

regexp2_sub(c, tok1) == regexp2_sub_from(c, tok1, FirstOf(Pre2Starts(c, tok1)))

\* ----------------------------------------------------------------- tables

\* [ \t]*token.*?\n at offset s: the offset after that newline (-1: no match)
TableLineEnd(t, tok, s) ==
    IF StartsAt(t, BlankRunEnd(t, s), tok) /\ LineEnd(t, s) < Len(t) THEN LineEnd(t, s) + 1
    ELSE -1

\* ([ \t]*token.*?\n)+ : the end of the run of such lines, the first of which
\* starts at offset s and ends at offset e
RECURSIVE TableEnd(_, _, _, _)
TableEnd(t, tok, s, e) == IF e = -1 THEN s ELSE TableEnd(t, tok, e, TableLineEnd(t, tok, e))

\* Table.re_string: ^(([ \t]*token.*?\n)+)  (MULTILINE)
TableStarts(t, tok, pos) ==
    {s \in pos..(Len(t) - 1) : LineStart(t, s) /\ TableLineEnd(t, tok, s) # -1}

TableMatchTo(s, e) == Match(s, e, s, e, 0)
TableMatchAt(t, tok, s) ==
    IF s < 0 THEN NoMatch ELSE TableMatchTo(s, TableEnd(t, tok, s, TableLineEnd(t, tok, s)))

TableSearch(t, tok, pos) == TableMatchAt(t, tok, FirstOf(TableStarts(t, tok, pos)))

\* token?[ \t]*\n at offset k, the newline being at offset n
RowTail(t, tok, k, n) ==
    \/ BlankRunEnd(t, k) = n
    \/ StartsAt(t, k, tok) /\ BlankRunEnd(t, k + Len(tok)) = n

\* TableRow.re_string: ^[ \t]*(token.*?)token?[ \t]*\n  (MULTILINE)
RowStarts(t, tok, pos) ==
    {s \in pos..(Len(t) - 1) :
        LineStart(t, s) /\ StartsAt(t, BlankRunEnd(t, s), tok) /\ LineEnd(t, s) < Len(t)}

\* the content starts at offset b, the line ends at offset n
RowMatchTo(t, tok, s, b, n) ==
    Match(s, n + 1, b, MinOf({k \in (b + Len(tok))..n : RowTail(t, tok, k, n)}), 0)

RowMatchAt(t, tok, s) ==
    IF s < 0 THEN NoMatch ELSE RowMatchTo(t, tok, s, BlankRunEnd(t, s), LineEnd(t, s))

RowSearch(t, tok, pos) == RowMatchAt(t, tok, FirstOf(RowStarts(t, tok, pos)))

\* CellStop without the lookbehind: an escaped token ends the cell as well
CellStop_anytoken(t, tok, q) == StartsAt(t, q, << tok[1] >>) \/ AtDollar(t, q)

\* ((?=(?<!~)token[0])|$) at offset q
CellStop(t, tok, q) ==
    \/ StartsAt(t, q, << tok[1] >>) /\ esc_neg_look(t, q)
    \/ AtDollar(t, q)

\* [ \t]*((?=(?<!~)token[0])|$) at offset k: the offsets it can end at
CellEnds(t, tok, k) == {q \in k..BlankRunEnd(t, k) : CellStop(t, tok, q)}

\* (.*?) from offset c: the offsets the content can end at
CellContentEnds(t, tok, c) == {k \in c..LineEnd(t, c) : CellEnds(t, tok, k) # {}}

\* TableCell.re_string: (?<!~)token[ \t]*(.*?)[ \t]*((?=(?<!~)token[0])|$)
CellStarts(t, tok, pos) ==
    {s \in pos..(Len(t) - 1) :
        /\ esc_neg_look(t, s)
        /\ StartsAt(t, s, tok)
        /\ CellContentEnds(t, tok, BlankRunEnd(t, s + Len(tok))) # {}}

CellMatchTo(t, tok, s, c, k) == Match(s, MaxOf(CellEnds(t, tok, k)), c, k, 0)
CellMatchFrom(t, tok, s, c) == CellMatchTo(t, tok, s, c, MinOf(CellContentEnds(t, tok, c)))
CellMatchAt(t, tok, s) ==
    IF s < 0 THEN NoMatch ELSE CellMatchFrom(t, tok, s, BlankRunEnd(t, s + Len(tok)))

CellSearch(t, tok, pos) == CellMatchAt(t, tok, FirstOf(CellStarts(t, tok, pos)))

\* ------------------------------------------------------------------ lists

\* (?=([ \t]*([stop_tokens])(?!\3)|$)) at offset e, MULTILINE: a line that
\* starts with exactly one stop token, or the end of a line
ListStop(t, stops, e) ==
    \/ /\ BlankRunEnd(t, e) < Len(t)
       /\ t[BlankRunEnd(t, e) + 1] \in stops
       /\ RunLen(t, BlankRunEnd(t, e), t[BlankRunEnd(t, e) + 1]) = 1
    \/ e = Len(t)
    \/ t[e + 1] = "\n"

\* .*?\n(?=...) from offset a: the offsets after a newline where the list can end
ListEnds(t, stops, a) ==
    {n + 1 : n \in {m \in a..(Len(t) - 1) : t[m + 1] = "\n" /\ ListStop(t, stops, m + 1)}}

\* [ \t]*token[^token] at offset s: the offset after it (-1: no match)
ListBegin(t, tok, s) ==
    IF /\ BlankRunEnd(t, s) + 2 <= Len(t)
       /\ t[BlankRunEnd(t, s) + 1] = tok
       /\ t[BlankRunEnd(t, s) + 2] # tok
    THEN BlankRunEnd(t, s) + 2 ELSE -1

\* List.re_string: ^([ \t]*token[^token].*?\n)(?=([ \t]*([stop_tokens])(?!\3)|$))
\* (DOTALL, MULTILINE)
ListStarts(t, tok, stops, pos) ==
    {s \in pos..(Len(t) - 1) :
        /\ LineStart(t, s)
        /\ ListBegin(t, tok, s) # -1
        /\ ListEnds(t, stops, ListBegin(t, tok, s)) # {}}

ListMatchTo(s, e) == Match(s, e, s, e, 0)
ListMatchAt(t, tok, stops, s) ==
    IF s < 0 THEN NoMatch ELSE ListMatchTo(s, MinOf(ListEnds(t, stops, ListBegin(t, tok, s))))

ListSearch(t, tok, stops, pos) == ListMatchAt(t, tok, stops, FirstOf(ListStarts(t, tok, stops, pos)))

\* ItemStop with a line of any marker run for the same run
ItemStop_anyrun(t, mark, r, e) ==
    \/ RunLen(t, BlankRunEnd(t, e), mark) >= 1
    \/ AtDollar(t, e)

\* ([ \t]*\1(?!\2)|$) at offset e, \1 being r times the character mark: a line
\* that starts with that run and no more, or $ (no MULTILINE)
ItemStop(t, mark, r, e) ==
    \/ RunLen(t, BlankRunEnd(t, e), mark) = r
    \/ AtDollar(t, e)

\* (.*?\n)(?=...) from offset c: the offsets after a newline where the item can end
ItemEnds(t, mark, r, c) ==
    {n + 1 : n \in {m \in c..(Len(t) - 1) : t[m + 1] = "\n" /\ ItemStop(t, mark, r, m + 1)}}

\* the offset the content starts at when the marker, at offset b, is taken r long
ItemContent(t, b, r) == IF r = RunLen(t, b, t[b + 1]) THEN BlankRunEnd(t, b + r) ELSE b + r

\* (([tokens])\2*): the lengths the run of the marker at offset b can be taken
\* with (greedy: the longest is tried first)
ItemRuns(t, b) ==
    {r \in 1..RunLen(t, b, t[b + 1]) : ItemEnds(t, t[b + 1], r, ItemContent(t, b, r)) # {}}

\* ListItem.re_string: [ \t]*(([tokens])\2*)[ \t]*(.*?\n)(?=([ \t]*\1(?!\2)|$))
\* (DOTALL)
ItemStarts(t, toks, pos) ==
    {s \in pos..(Len(t) - 1) :
        /\ BlankRunEnd(t, s) < Len(t)
        /\ t[BlankRunEnd(t, s) + 1] \in toks
        /\ ItemRuns(t, BlankRunEnd(t, s)) # {}}

\* the match whose marker is at offset b and r long and whose content starts at c;
\* its key is r
ItemMatchOf(t, s, b, r, c) == Match(s, MinOf(ItemEnds(t, t[b + 1], r, c)), c,
                                    MinOf(ItemEnds(t, t[b + 1], r, c)), r)
ItemMatchRun(t, s, b, r) == ItemMatchOf(t, s, b, r, ItemContent(t, b, r))
ItemMatchFrom(t, s, b) == ItemMatchRun(t, s, b, MaxOf(ItemRuns(t, b)))
ItemMatchAt(t, s) == IF s < 0 THEN NoMatch ELSE ItemMatchFrom(t, s, BlankRunEnd(t, s))

ItemSearch(t, toks, pos) == ItemMatchAt(t, FirstOf(ItemStarts(t, toks, pos)))

\* NestedList.re_string: (?<=\n)^(\s*token.*$)  (DOTALL, MULTILINE)
NestedStarts(t, tok, pos) ==
    {s \in pos..(Len(t) - 1) :
        s > 0 /\ t[s] = "\n" /\ WsRunEnd(t, s) < Len(t) /\ t[WsRunEnd(t, s) + 1] = tok}

NestedMatchAt(t, s) == IF s < 0 THEN NoMatch ELSE Match(s, Len(t), s, Len(t), 0)

NestedSearch(t, tok, pos) == NestedMatchAt(t, FirstOf(NestedStarts(t, tok, pos)))

\* ------------------------------------------------------ argument strings

\* \w+ *= at offset p: a run of word characters, blanks, the token
KeywordAt(t, tok, p) ==
    /\ p < Len(t)
    /\ IsWord(t[p + 1])
    /\ StartsAt(t, SpRunEnd(t, WordRunEnd(t, p)), tok)

\* KeywordArgs: (?P<body>\w+ *=.*)$ with DOTALL: from the first keyword to the
\* end of the text
KeywordArgsSearch(t, tok, pos) ==
    LET s == FirstOf({p \in pos..(Len(t) - 1) : KeywordAt(t, tok, p)}) IN
    IF s < 0 THEN NoMatch ELSE Match(s, Len(t), s, Len(t), 0)

\* the first end (.*?) can have when it starts at offset c: what follows is
\* " *" and then the next keyword or $
ValueStop(t, tok, c) ==
    MinOf({x \in c..Len(t) : \/ KeywordAt(t, tok, SpRunEnd(t, x))
                             \/ DollarAfter(t, x) >= 0})

\* KeywordArg: (?P<name>\w+) *= *(?P<body>.*?) *(?=\w+ *=|$) with DOTALL
KeywordArgMatchAt(t, tok, s) ==
    IF s < 0 THEN NoMatch
    ELSE LET c == SpRunEnd(t, SpRunEnd(t, WordRunEnd(t, s)) + Len(tok))
         IN  Match(s, SpRunEnd(t, ValueStop(t, tok, c)), c, ValueStop(t, tok, c), 0)

KeywordArgSearch(t, tok, pos) ==
    KeywordArgMatchAt(t, tok, FirstOf({p \in pos..(Len(t) - 1) : KeywordAt(t, tok, p)}))

\* mo.group('name') of a KeywordArg match that starts at offset s
KeywordName(t, s) == Slice(t, s, WordRunEnd(t, s))

\* PositionalArgs: ^(?P<body>.*)$ with DOTALL and without MULTILINE: the
\* whole text, found at offset 0 only
PositionalArgsSearch(t, pos) ==
    IF pos = 0 THEN Match(0, Len(t), 0, Len(t), 0) ELSE NoMatch

\* the offsets of closing token close after offset c with no escape character
\* before it; anchored: followed by $
ArgCloses(t, close, c, anchored) ==
    {k \in c..(Len(t) - 1) : /\ StartsAt(t, k, close)
                             /\ esc_neg_look(t, k)
                             /\ anchored => AtDollar(t, k + Len(close))}

\* open, (.*?) and close, each token with (?<!~) before it (DOTALL)
ArgPairMatchAt(t, open, close, s, anchored) ==
    LET k == MinOf(ArgCloses(t, close, s + Len(open), anchored))
    IN  Match(s, k + Len(close), s + Len(open), k, 0)

\* QuotedArg: (?<!~)(?P<quote>['"])(?P<body>.*?)(?<!~)(?P=quote)
QuotedStarts(t, quotes, pos) ==
    {s \in pos..(Len(t) - 1) : /\ t[s + 1] \in quotes
                               /\ esc_neg_look(t, s)
                               /\ ArgCloses(t, << t[s + 1] >>, s + 1, FALSE) # {}}

QuotedArgSearch(t, quotes, pos) ==
    LET s == FirstOf(QuotedStarts(t, quotes, pos)) IN
    IF s < 0 THEN NoMatch ELSE ArgPairMatchAt(t, << t[s + 1] >>, << t[s + 1] >>, s, FALSE)

\* ListArg: (?<!~)\[(?P<body>.*?)(?<!~)\]; ExplicitListArg: the same between
\* ^ and $
ListArgSearch(t, open, close, pos, anchored) ==
    LET s == FirstOf({p \in pos..(IF anchored THEN 0 ELSE Len(t) - 1) :
                         /\ StartsAt(t, p, open)
                         /\ esc_neg_look(t, p)
                         /\ ArgCloses(t, close, p + Len(open), anchored) # {}})
    IN  IF s < 0 THEN NoMatch ELSE ArgPairMatchAt(t, open, close, s, anchored)

\* WhiteSpace: ' +'
WhiteSpaceSearch(t, pos) ==
    LET s == FirstOf({p \in pos..(Len(t) - 1) : t[p + 1] = " "}) IN
    IF s < 0 THEN NoMatch ELSE Match(s, SpRunEnd(t, s), s, SpRunEnd(t, s), 0)

\* ------------------------------------------------------------- fragments
\* What fragmentize returns: a list of strings ("tx") and genshi elements ("el").
\* NoFrag is Python's None.

Txt(s) == [k |-> "tx", s |-> s, tag |-> "", kids |-> << >>, attr |-> << >>]
El(tag, kids) == [k |-> "el", s |-> << >>, tag |-> tag, kids |-> kids, attr |-> << >>]
ElA(tag, kids, attr) == [k |-> "el", s |-> << >>, tag |-> tag, kids |-> kids, attr |-> attr]
NoFrag == [k |-> "none", s |-> << >>, tag |-> "", kids |-> << >>, attr |-> << >>]

\* a genshi Fragment (bldr.tag(list)), a Stream and a Markup string
Fr(kids) == [k |-> "fr", s |-> << >>, tag |-> "", kids |-> kids, attr |-> << >>]
St(kids) == [k |-> "st", s |-> << >>, tag |-> "", kids |-> kids, attr |-> << >>]
Mk(s) == [k |-> "mk", s |-> s, tag |-> "", kids |-> << >>, attr |-> << >>]

\* the values of an argument parse: a list, an ExplicitList, the tuple
\* (name, value) of a keyword argument, a dictionary (its items in the order
\* of their first assignment) and the two-tuple ArgParser returns
Ls(items) == [k |-> "list", s |-> << >>, tag |-> "", kids |-> items, attr |-> << >>]
Xl(items) == [k |-> "list", s |-> << >>, tag |-> "ExplicitList", kids |-> items, attr |-> << >>]
Kw(name, value) == [k |-> "kw", s |-> name, tag |-> "", kids |-> << value >>, attr |-> << >>]
Dc(items) == [k |-> "dict", s |-> << >>, tag |-> "", kids |-> items, attr |-> << >>]
Tp(pos, kw) == [k |-> "tuple", s |-> << >>, tag |-> "", kids |-> << pos, kw >>, attr |-> << >>]

\* the literal '<<<' + id + '>>>'
PlaceHolder(id) == PhOpen \o id \o PhClose

\* fill_from_store(text, element_store)
\* fill_from_store leaving out the placeholders whose id is not in the store
RECURSIVE fill_from_store_drop(_, _)
fill_from_store_drop(text, store) ==
    LET mo == place_holder_search(text, 0) IN
    IF ~ Found(mo) THEN << Txt(text) >>
    ELSE LET id == Slice(text, mo.cs, mo.ce) IN
         (IF mo.s > 0 THEN << Txt(Slice(text, 0, mo.s)) >> ELSE << >>)
         \o (IF id \in DOMAIN store THEN << store[id] >> ELSE << >>)
         \o (IF mo.e < Len(text) THEN fill_from_store_drop(Slice(text, mo.e, Len(text)), store)
             ELSE << >>)

RECURSIVE fill_from_store(_, _)
fill_from_store(text, store) ==
    LET mo == place_holder_search(text, 0) IN
    IF ~ Found(mo) THEN << Txt(text) >>
    ELSE LET id == Slice(text, mo.cs, mo.ce) IN
         (IF mo.s > 0 THEN << Txt(Slice(text, 0, mo.s)) >> ELSE << >>)
         \o << IF id \in DOMAIN store THEN store[id] ELSE Txt(PlaceHolder(id)) >>
         \o (IF mo.e < Len(text)
             THEN fill_from_store(Slice(text, mo.e, Len(text)), store)
             ELSE << >>)

\* the literal-text leaf of fragmentize: the else branch of its while loop
FragmentizeLeaf(text, store, remove_escapes) ==
    fill_from_store(IF remove_escapes THEN esc_to_remove_sub(text) ELSE text, store)

\* ------------------------------------------------ the nodes of links

HrefAttr(href) == << "href" >> \o href

\* Link._build: the child tags are tried in order; the first that matches and
\* builds something true makes the link.  The plan holds the type that made it
\* ("none": no type did), the href, what the a element holds when no alias is
\* parsed, and the alias text to parse.
LinkChoice_firstmatch(c, u, i, w) ==
        IF u.found
        THEN [kind |-> "url", href |-> IF URLLinkHref(u) # << >> THEN URLLinkHref(u)
                                       ELSE unsafe_uri_detected,
              parse |-> u.alias # << >>, alias |-> u.alias,
              kids |-> << Txt(IF URLLinkHref(u) # << >> THEN URLLinkHref(u)
                              ELSE unsafe_uri_detected) >>]
        ELSE IF i.found /\ InterWikiHref(i) # << >>
        THEN [kind |-> "interwiki", href |-> InterWikiHref(i), parse |-> i.alias # << >>,
              alias |-> i.alias, kids |-> << Txt(i.wiki \o << ":" >> \o i.target) >>]
        ELSE IF i.found
        THEN [kind |-> "literal", href |-> << >>, parse |-> FALSE, alias |-> << >>,
              kids |-> << Txt(<< "[", "[" >> \o Slice(c, 0, i.e) \o << "]", "]" >>) >>]
        ELSE IF w.found
        THEN [kind |-> "wiki", href |-> WikiLinkHref(w), parse |-> w.bar, alias |-> w.alias,
              kids |-> << Txt(w.target) >>]
        ELSE [kind |-> "none", href |-> << >>, parse |-> FALSE, alias |-> << >>,
              kids |-> << >>]

\* u, i and w are the matches of the three link types on the content c
LinkChoice(c, u, i, w) ==
        IF u.found /\ URLLinkHref(u) # << >>
        THEN [kind |-> "url", href |-> URLLinkHref(u), parse |-> u.alias # << >>,
              alias |-> u.alias, kids |-> << Txt(URLLinkHref(u)) >>]
        ELSE IF i.found /\ InterWikiHref(i) # << >>
        THEN [kind |-> "interwiki", href |-> InterWikiHref(i), parse |-> i.alias # << >>,
              alias |-> i.alias, kids |-> << Txt(i.wiki \o << ":" >> \o i.target) >>]
        ELSE IF i.found
        THEN [kind |-> "literal", href |-> << >>, parse |-> FALSE, alias |-> << >>,
              kids |-> << Txt(<< "[", "[" >> \o Slice(c, 0, i.e) \o << "]", "]" >>) >>]
        ELSE IF w.found
        THEN [kind |-> "wiki", href |-> WikiLinkHref(w), parse |-> w.bar, alias |-> w.alias,
              kids |-> << Txt(w.target) >>]
        ELSE [kind |-> "none", href |-> << >>, parse |-> FALSE, alias |-> << >>,
              kids |-> << >>]

LinkPlan(c) == LinkChoice(c, URLLinkSearch(c), InterWikiSearch(c), WikiLinkSearch(c))

\* str.strip()
RECURSIVE LStrip(_)
LStrip(s) == IF s # << >> /\ IsSpace(s[1]) THEN LStrip(Tail(s)) ELSE s
RECURSIVE RStrip(_)
RStrip(s) == IF s # << >> /\ IsSpace(s[Len(s)]) THEN RStrip(Slice(s, 0, Len(s) - 1)) ELSE s
Strip(s) == RStrip(LStrip(s))

\* Image._build; src_regexp is ^\s*(\S+)\s*$
ImageSrc(body) ==
    LET bars == {k \in 1..Len(body) : body[k] = "|"}
        b0 == IF bars = {} THEN body ELSE Slice(body, 0, MinOf(bars) - 1)
        a == WsRunEnd(b0, 0)
        ends == {r \in WordsFrom(b0, a) : WsRunEnd(b0, r) = Len(b0)}
    IN  IF ends = {} THEN << >> ELSE Slice(b0, a, MaxOf(ends))

ImageAlt(body, link) ==
    LET bars == {k \in 1..Len(body) : body[k] = "|"} IN
    IF bars = {} THEN link ELSE Strip(Slice(body, MinOf(bars), Len(body)))

BadImageSrc == << "B", "a", "d", " ", "I", "m", "a", "g", "e", " ", "s", "r", "c" >>

ImageAttr(link, alt) == << "src" >> \o link \o << "alt" >> \o alt \o << "title" >> \o alt

ImageLink_unchecked(src) == src
ImageLink(src) == IF is_safe_uri(src) THEN src ELSE unsafe_uri_detected

ImageNode(body) ==
    IF ImageSrc(body) = << >> THEN El("span", << Txt(BadImageSrc) >>)
    ELSE ElA("img", << >>, ImageAttr(ImageLink(ImageSrc(body)),
                                     ImageAlt(body, ImageLink(ImageSrc(body)))))

\* -------------------------------------------------------------- elements
\* A wiki element: its class (which re_string and _build it has), tag, token(s),
\* the name of its child grammar (child_tags), append_newline, and which
\* _process it inherits ("block": WikiElement, "inline": InlineElement,
\* "macro": Macro).

Element(cls, proc, tag, toks, tags, child, nl) ==
    [cls |-> cls, proc |-> proc, tag |-> tag, toks |-> toks, tags |-> tags,
     child |-> child, nl |-> nl]

StarStar == << "*", "*" >>
SlashSlash == << "/", "/" >>

Elements ==
    [ strong     |-> Element("InlineElement", "inline", "strong", << StarStar >>, << >>,
                             "ordered", FALSE),
      em         |-> Element("InlineElement", "inline", "em", << SlashSlash >>, << >>,
                             "ordered", FALSE),
      g_strong   |-> Element("InlineElement", "inline", "strong", << StarStar >>, << >>,
                             "none", FALSE),
      g_bold     |-> Element("InlineElement", "inline", "b", << << "*" >> >>, << >>,
                             "none", FALSE),
      simple     |-> Element("SimpleElement", "inline", "", << StarStar, SlashSlash >>,
                             << "strong", "em" >>, "simple", FALSE),
      no_wiki    |-> Element("NoWikiElement", "inline", "code",
                             << << "{", "{", "{" >>, << "}", "}", "}" >> >>, << >>,
                             "none", FALSE),
      no_wiki_span |-> Element("NoWikiElement", "inline", "span",
                               << << "{", "{", "{" >>, << "}", "}", "}" >> >>, << >>,
                               "none", FALSE),
      simple_plus |-> Element("SimpleElement", "inline", "",
                              << StarStar, SlashSlash, << ",", "," >>, << "^", "^" >>,
                                 << "_", "_" >>, << "#", "#" >> >>,
                              << "strong", "em", "sub", "sup", "u", "code" >>,
                              "simple_plus", FALSE),
      macro      |-> Element("Macro", "macro", "", << << "<", "<" >>, << ">", ">" >> >>,
                             << >>, "none", FALSE),
      bodiedmacro |-> Element("BodiedMacro", "bodied", "", << << "<", "<" >>, << ">", ">" >> >>,
                              << >>, "none", FALSE),
      bodied_block_macro |-> Element("BodiedBlockMacro", "bodiedblock", "",
                                     << << "<", "<" >>, << ">", ">" >> >>, << >>, "none", FALSE),
      img        |-> Element("Image", "inline", "img",
                             << << "{", "{" >>, << "}", "}" >> >>, << >>, "none", FALSE),
      link       |-> Element("Link", "inline", "",
                             << << "[", "[" >>, << "]", "]" >> >>, << >>, "simple", FALSE),
      raw_link   |-> Element("RawLink", "inline", "a", << >>, << >>, "none", FALSE),
      headings   |-> Element("Heading", "block", "", << << "=" >> >>,
                             << "h1", "h2", "h3", "h4", "h5", "h6" >>, "simple", TRUE),
      trunk_headings |-> Element("TrunkHeading", "block", "", << << "=" >> >>,
                             << "h1", "h2", "h3", "h4", "h5", "h6" >>, "simple", TRUE),
      blank_line |-> Element("BlankLine", "block", "", << >>, << >>, "none", FALSE),
      pre        |-> Element("PreBlock", "block", "pre",
                             << << "{", "{", "{" >>, << "}", "}", "}" >> >>, << >>,
                             "none", TRUE),
      no_wiki_kids |-> Element("NoWikiElement", "inline", "code",
                               << << "{", "{", "{" >>, << "}", "}", "}" >> >>, << >>,
                               "block", FALSE),
      table      |-> Element("Table", "block", "table", << << "|" >> >>, << >>, "table", TRUE),
      tr         |-> Element("TableRow", "block", "tr", << << "|" >> >>, << >>, "row", TRUE),
      th         |-> Element("TableCell", "block", "th", << << "|", "=" >> >>, << >>, "cell",
                             FALSE),
      td         |-> Element("TableCell", "block", "td", << << "|" >> >>, << >>, "cell", FALSE),
      ul         |-> Element("List", "block", "ul", << << "*" >>, << "#" >> >>, << >>, "list",
                             TRUE),
      ol         |-> Element("List", "block", "ol", << << "#" >>, << "*" >> >>, << >>, "list",
                             TRUE),
      li         |-> Element("ListItem", "block", "li", << << "*", "#" >> >>, << >>, "item",
                             FALSE),
      nested_ol  |-> Element("NestedList", "block", "ol", << << "#" >> >>, << >>, "list",
                             FALSE),
      nested_ul  |-> Element("NestedList", "block", "ul", << << "*" >> >>, << >>, "list",
                             FALSE),
      p          |-> Element("Paragraph", "block", "p", << >>, << >>, "inline", TRUE),
      kw_args    |-> Element("KeywordArgs", "block", "", << << "=" >> >>, << >>, "kw_args", FALSE),
      kw_arg     |-> Element("KeywordArg", "block", "", << << "=" >> >>, << >>, "kw_arg", FALSE),
      pos_args   |-> Element("PositionalArgs", "block", "", << >>, << >>, "pos_args", FALSE),
      quoted_arg |-> Element("QuotedArg", "inline", "", << << "'", "\"" >> >>, << >>,
                             "none", FALSE),
      list_arg   |-> Element("ListArg", "block", "", << << "[" >>, << "]" >> >>, << >>,
                             "spaces", FALSE),
      explicit_list_arg |-> Element("ExplicitListArg", "block", "", << << "[" >>, << "]" >> >>,
                                    << >>, "spaces", FALSE),
      spaces     |-> Element("WhiteSpace", "block", "", << >>, << >>, "none", FALSE),
      hr         |-> Element("LoneElement", "block", "hr", << << "-", "-", "-", "-" >> >>,
                             << >>, "none", TRUE) ]

\* regexp.search(text, pos) of the element named n
Search(n, t, pos) ==
    LET e == Elements[n] IN
    CASE e.cls = "InlineElement" -> InlineSearch(t, e.toks[1], pos)
      [] e.cls = "SimpleElement" -> SimpleSearch(t, e.toks, pos)
      [] e.cls = "NoWikiElement" -> NoWikiSearch(t, e.toks[1], e.toks[2], pos)
      [] e.cls = "Macro"         -> MacroSearch(t, e.toks[1], e.toks[2], pos)
      [] e.cls = "BodiedMacro"   -> BodiedSearch(t, e.toks[1], e.toks[2], pos)
      [] e.cls = "BodiedBlockMacro" -> BlockMacroSearch(t, e.toks[1], e.toks[2], pos)
      [] e.cls = "Image"         -> ImageSearch(t, e.toks[1], e.toks[2], pos)
      [] e.cls = "Link"          -> PairSearch(t, e.toks[1], e.toks[2], pos)
      [] e.cls = "RawLink"       -> RawLinkSearch(t, pos)
      [] e.cls \in {"Heading", "TrunkHeading"}
                                 -> HeadingSearch(t, e.toks[1][1], Len(e.tags), pos,
                                                  e.cls = "TrunkHeading")
      [] e.cls = "BlankLine"     -> BlankSearch(t, pos)
      [] e.cls = "PreBlock"      -> PreSearch(t, e.toks[1], e.toks[2], pos)
      [] e.cls = "LoneElement"   -> LoneSearch(t, e.toks[1], pos)
      [] e.cls = "Table"         -> TableSearch(t, e.toks[1], pos)
      [] e.cls = "TableRow"      -> RowSearch(t, e.toks[1], pos)
      [] e.cls = "TableCell"     -> CellSearch(t, e.toks[1], pos)
      [] e.cls = "Paragraph"     -> ParaSearch(t, pos)
      [] e.cls = "List"          -> ListSearch(t, e.toks[1][1], Range(e.toks[2]), pos)
      [] e.cls = "ListItem"      -> ItemSearch(t, Range(e.toks[1]), pos)
      [] e.cls = "NestedList"    -> NestedSearch(t, e.toks[1][1], pos)
      [] e.cls = "KeywordArgs"   -> KeywordArgsSearch(t, e.toks[1], pos)
      [] e.cls = "KeywordArg"    -> KeywordArgSearch(t, e.toks[1], pos)
      [] e.cls = "PositionalArgs" -> PositionalArgsSearch(t, pos)
      [] e.cls = "QuotedArg"     -> QuotedArgSearch(t, Range(e.toks[1]), pos)
      [] e.cls \in {"ListArg", "ExplicitListArg"}
                                 -> ListArgSearch(t, e.toks[1], e.toks[2], pos,
                                                  e.cls = "ExplicitListArg")
      [] e.cls = "WhiteSpace"    -> WhiteSpaceSearch(t, pos)
      [] OTHER                   -> NoMatch

\* [mo for mo in regexp.finditer(text)]: the successive matches, each searched
\* from the end of the one before, or one character on when that one was empty
RECURSIVE FindIter(_, _, _)
\* the match mo, when there is one, and the matches after it
MatchesFrom(n, t, mo) ==
    IF ~ Found(mo) THEN << >>
    ELSE IF mo.e > mo.s THEN << mo >> \o FindIter(n, t, mo.e)
    ELSE IF mo.e < Len(t) THEN << mo >> \o FindIter(n, t, mo.e + 1)
    ELSE << mo >>
FindIter(n, t, pos) == MatchesFrom(n, t, Search(n, t, pos))

\* A grammar item is one element or a group (a list or tuple) of elements.
Single(n) == [grp |-> FALSE, els |-> << n >>]
Group(ns) == [grp |-> TRUE, els |-> ns]

Grammars ==
    [ none    |-> << >>,
      simple  |-> << Single("simple") >>,
      simple_plus |-> << Single("simple_plus") >>,
      ordered |-> << Single("strong"), Single("em") >>,
      grp1    |-> << Group(<< "g_strong", "g_bold" >>) >>,
      grp2    |-> << Group(<< "g_bold", "g_strong" >>) >>,
      block   |-> << Single("blank_line"), Single("hr"), Single("simple") >>,
      blockgrp |-> << Group(<< "hr", "blank_line" >>), Single("simple") >>,
      nowiki  |-> << Single("no_wiki"), Single("simple") >>,
      macro   |-> << Group(<< "no_wiki", "macro" >>), Single("simple") >>,
      bodied  |-> << Group(<< "bodiedmacro", "macro" >>), Single("simple") >>,
      links   |-> << Single("img"), Single("link"), Single("raw_link"), Single("simple") >>,
      headings |-> << Single("headings"), Single("simple") >>,
      pre     |-> << Single("pre"), Single("blank_line"), Single("simple") >>,
      inline  |-> << Single("no_wiki"), Single("img"), Single("link"), Single("raw_link"),
                     Single("simple") >>,
      inline_plus |-> << Group(<< "no_wiki", "bodiedmacro", "macro" >>), Single("img"),
                         Single("link"), Single("raw_link"), Single("simple") >>,
      paras   |-> << Single("blank_line"), Single("p") >>,
      creepy  |-> << Single("quoted_arg"), Single("kw_args"), Single("pos_args") >>,
      kw_args |-> << Single("kw_arg") >>,
      kw_arg  |-> << Single("explicit_list_arg"), Single("spaces") >>,
      pos_args |-> << Single("list_arg"), Single("spaces") >>,
      spaces  |-> << Single("spaces") >>,
      cell    |-> << Single("raw_link"), Single("simple") >>,
      row     |-> << Single("no_wiki"), Single("img"), Single("link"), Single("th"),
                     Single("td") >>,
      table   |-> << Single("tr") >>,
      list    |-> << Single("li") >>,
      item    |-> << Group(<< "nested_ol", "nested_ul" >>), Single("no_wiki"), Single("img"),
                     Single("link"), Single("raw_link"), Single("simple") >>,
      lists   |-> << Single("blank_line"), Single("ul"), Single("ol"), Single("p") >>,
      tables  |-> << Single("blank_line"), Single("table"), Single("p") >>,
      nowikikids |-> << Single("no_wiki_kids"), Single("simple") >>,
      trunk_headings |-> << Single("trunk_headings"), Single("simple") >>,
      bodiedblock |-> << Group(<< "bodied_block_macro", "hr" >>), Single("blank_line"),
                         Single("simple") >> ]

\* fragmentize, the group branch: search for every member, keep the closest
\* (x is None: -1)
NoPick == [x |-> -1, el |-> "", mos |-> << >>]
\* KeepCloser with <= for <: among members that start together the last wins
KeepCloser_lastwins(best, n, mo) ==
    IF Found(mo) /\ (best.x = -1 \/ mo.s <= best.x)
    THEN [x |-> mo.s, el |-> n, mos |-> << mo >>]
    ELSE best

\* if mo and (x is None or mo.start() < x): x, wiki_element = mo.start(), element
KeepCloser(best, n, mo) ==
    IF Found(mo) /\ (best.x = -1 \/ mo.s < best.x)
    THEN [x |-> mo.s, el |-> n, mos |-> << mo >>]
    ELSE best

RECURSIVE GroupScan(_, _, _, _)
GroupScan(els, t, i, best) ==
    IF i > Len(els) THEN best
    ELSE GroupScan(els, t, i + 1, KeepCloser(best, els[i], Search(els[i], t, 0)))

\* fragmentize, one pass of its while loop over a non-empty grammar: the element
\* the head item yields and its matches (mos empty: no match)
\* HeadMatch looking at every item of the grammar at once: the closest wins
HeadMatch_closest(gram, t) ==
    GroupScan(Flatten([k \in 1..Len(gram) |-> gram[k].els]), t, 1, NoPick)

HeadMatch(gram, t) ==
    IF gram[1].grp THEN GroupScan(gram[1].els, t, 1, NoPick)
    ELSE [x |-> -1, el |-> gram[1].els[1], mos |-> FindIter(gram[1].els[1], t, 0)]

\* ---------------------------------------------------------------- bounds

MaxPieces == 3      \* an input text is made of at most this many pieces
NIds == 4           \* the values id() can return
MaxDepth == 14      \* the interpreter's recursion limit, in fragmentize calls

Threads == {"t1", "t2"}

IdDigits == << "1", "2", "3", "4", "5", "6", "7", "8", "9" >>
\* str(id(processed)): a decimal string
IdPool == {<< IdDigits[n] >> : n \in 1..NIds}

\* ----------------------------------------------------------------- state

VARIABLES
    stk,      \* per thread, the call stack: one frame per fragmentize call
    stores,   \* the element_store dictionaries created so far
    issued,   \* per generate call, the placeholders it has stored (history)
    out,      \* per thread, what its top-level call returned
    status,   \* per thread: "idle", "new" (generate not yet called), "run",
              \* "done", or the exception that ended the parse
    multi,    \* TRUE: _process takes the list of matches (trunk elements.py);
              \* FALSE: _process takes one match object (elements.py)
    func,     \* the dialect's macro_func
    top,      \* per thread, the arguments of its generate call
    child_tags, \* per element, the list object its child_tags attribute refers to
    lists,    \* the list objects of the dialects: what each holds
    made      \* the dialect instances constructed so far

vars == << stk, stores, issued, out, status, multi, func, top, child_tags, lists, made >>

\* the objects of the dialect: elements' child_tags and the lists they refer to
dialect == << child_tags, lists, made >>

\* A list object is named by what it was made as and by the instance that made
\* it (0: made with the module).  NoRef is a list that a slice or a
\* concatenation has just made, which no dialect refers to.
NoRef == << "", 0 >>
ModuleList(name) == << name, 0 >>

\* the dialect of a parser whose grammar is one of Grammars: every element's
\* child_tags is the list of its child grammar
ModuleLists == [id \in {ModuleList(g) : g \in DOMAIN Grammars} |-> Grammars[id[1]]]
ModuleChildTags == [n \in DOMAIN Elements |-> ModuleList(Elements[n].child)]
ModuleDialect ==
    /\ child_tags = ModuleChildTags
    /\ lists = ModuleLists
    /\ made = << >>

\* The frame of one fragmentize call together with the _process it hands over
\* to: text, wiki_elements (gram: the local variable, which the loop shortens;
\* wiki0: the value the call was made with), remove_escapes (esc), element_store (st, an
\* index into stores), the generate call it belongs to (gen), and the locals
\* of _process: the element (el), its matches (mos), the match being worked on
\* (i), end, frags, the new text being joined (acc), the built node and the
\* tail a macro with a body hands back.  ref is the list object wiki_elements
\* refers to (NoRef once the loop has sliced it).
Frame(text, gram, esc, st, gen) ==
    [text |-> text, gram |-> gram, wiki0 |-> gram, ref |-> NoRef,
     esc |-> esc, st |-> st, gen |-> gen,
     pc |-> "loop", el |-> "", mos |-> << >>, i |-> 0, end |-> 0,
     frags |-> << >>, acc |-> << >>, built |-> NoFrag, tail |-> << >>]

\* the frame of a call that is handed the list object id itself
FrameOn(text, id, esc, st, gen) ==
    [Frame(text, lists[id], esc, st, gen) EXCEPT !.ref = id]

Top(th) == stk[th][Len(stk[th])]
Running(th) == stk[th] # << >>

\* preprocess(text, dialect): \r\n and \r become \n
RECURSIVE preprocess(_)
preprocess(t) ==
    IF t = << >> THEN << >>
    ELSE IF t[1] = "\r" /\ Len(t) > 1 /\ t[2] = "\n" THEN << "\n" >> \o preprocess(Slice(t, 2, Len(t)))
    ELSE IF t[1] = "\r" THEN << "\n" >> \o preprocess(Tail(t))
    ELSE << t[1] >> \o preprocess(Tail(t))

\* an exception unwinds the whole stack of the thread
Raise(th, e) ==
    /\ stk' = [stk EXCEPT ![th] = << >>]
    /\ status' = [status EXCEPT ![th] = e]

\* the top frame becomes f and calls fragmentize: frame g is pushed, unless the
\* recursion limit is reached
Call(th, f, g) ==
    IF Len(stk[th]) < MaxDepth
    THEN /\ stk' = [stk EXCEPT ![th] = Append([@ EXCEPT ![Len(@)] = f], g)]
         /\ status' = status
    ELSE Raise(th, "RuntimeError")

Goto(th, f) ==
    /\ stk' = [stk EXCEPT ![th] = [@ EXCEPT ![Len(@)] = f]]
    /\ status' = status

\* ------------------------------------------------------------ fragmentize

\* the grammar is empty: the else branch of the while loop (core.py:205-209)
FragLeaf(th) ==
    /\ Running(th)
    /\ LET f == Top(th) IN
       /\ f.pc = "loop"
       /\ f.gram = << >>
       /\ Goto(th, [f EXCEPT !.frags = FragmentizeLeaf(f.text, stores[f.st], f.esc),
                             !.pc = "ret"])
    /\ UNCHANGED << stores, issued, out, multi, func, top, dialect >>

\* FragDrop with del wiki_elements[0] for the slice: the list object itself
\* loses its head
FragDrop_inplace(th) ==
    /\ Running(th)
    /\ LET f == Top(th) IN
       /\ f.pc = "loop"
       /\ f.gram # << >>
       /\ HeadMatch(f.gram, f.text).mos = << >>
       /\ Goto(th, [f EXCEPT !.gram = Tail(f.gram)])
       /\ lists' = IF f.ref = NoRef THEN lists ELSE [lists EXCEPT ![f.ref] = Tail(@)]
    /\ UNCHANGED << stores, issued, out, multi, func, top, child_tags, made >>

\* the head item has no match: wiki_elements = wiki_elements[1:] (core.py:202-203)
FragDrop(th) ==
    /\ Running(th)
    /\ LET f == Top(th) IN
       /\ f.pc = "loop"
       /\ f.gram # << >>
       /\ HeadMatch(f.gram, f.text).mos = << >>
       /\ Goto(th, [f EXCEPT !.gram = Tail(f.gram), !.ref = NoRef])
    /\ UNCHANGED << stores, issued, out, multi, func, top, dialect >>

\* the head item matches: wiki_element._process(mos, text, wiki_elements, ...)
\* (core.py:199-201).  The _process of elements.py works on one match object,
\* the first of them; the _process of trunk works through the list.
FragMatch(th) ==
    /\ Running(th)
    /\ LET f == Top(th) IN
       /\ f.pc = "loop"
       /\ f.gram # << >>
       /\ \E hm \in {HeadMatch(f.gram, f.text)} :
          /\ hm.mos # << >>
          /\ Goto(th, [f EXCEPT !.el = hm.el,
                                !.mos = IF multi THEN hm.mos ELSE << hm.mos[1] >>,
                                !.i = 1, !.end = 0, !.pc = "process"])
    /\ UNCHANGED << stores, issued, out, multi, func, top, dialect >>

\* --------------------------------------------------------------- _process

\* RestGrammar dropping the head item in every case
RestGrammar_tail(f) == Tail(f.gram)

\* the grammar _process passes on with the text that follows its last match
RestGrammar(f) ==
    IF multi /\ ~ f.gram[1].grp THEN Tail(f.gram) ELSE f.gram

\* the list object that grammar is: wiki_elements itself unless it was sliced
RestRef(f) ==
    IF multi /\ ~ f.gram[1].grp THEN NoRef ELSE f.ref

\* AfterBuild with the newline put before the node
AfterBuild_newlinefirst(f, built) ==
    IF Elements[f.el].proc = "block"
    THEN [f EXCEPT !.frags = f.frags
                              \o (IF Elements[f.el].nl THEN << Txt(<< "\n" >>) >> ELSE << >>)
                              \o (IF built.k = "none" THEN << >> ELSE << built >>),
                   !.end = f.mos[f.i].e,
                   !.i = IF f.i < Len(f.mos) THEN f.i + 1 ELSE f.i,
                   !.pc = IF f.i < Len(f.mos) THEN "process" ELSE "trail"]
    ELSE [f EXCEPT !.built = built, !.pc = "store"]

\* what follows self._build(mo, ...) in _process
AfterBuild(f, built) ==
    IF Elements[f.el].proc = "block"
    THEN [f EXCEPT !.frags = f.frags
                              \o (IF built.k = "none" THEN << >> ELSE << built >>)
                              \o (IF Elements[f.el].nl THEN << Txt(<< "\n" >>) >> ELSE << >>),
                   !.end = f.mos[f.i].e,
                   !.i = IF f.i < Len(f.mos) THEN f.i + 1 ELSE f.i,
                   !.pc = IF f.i < Len(f.mos) THEN "process" ELSE "trail"]
    ELSE [f EXCEPT !.built = built, !.pc = "store"]

BLOCK_ONLY_TAGS ==
    {"h1", "h2", "h3", "h4", "h5", "h6", "ul", "ol", "dl", "pre", "hr", "blockquote",
     "address", "p", "div", "form", "fieldset", "table", "noscript"}

\* Paragraph._build: the test that records a fragment as block only
BlockOnly(n) == (n.k = "el" /\ n.tag \in BLOCK_ONLY_TAGS) \/ n.k \in {"st", "mk"}

\* what Paragraph._build appends for content[last_i+1:i], the run before a
\* block-only fragment: nothing for an empty run, the bare string for a run
\* that is one newline, else the run in a paragraph element
RunBefore(tag, run) ==
    IF run = << >> THEN << >>
    ELSE IF Len(run) = 1 /\ run[1] = Txt(<< "\n" >>) THEN << Txt(<< "\n" >>) >>
    ELSE << El(tag, run) >>

\* ParagraphSplit leaving the block-only fragments in the runs
RECURSIVE ParagraphSplit_nosplit(_, _, _)
ParagraphSplit_nosplit(tag, content, run) ==
    IF content = << >> THEN (IF run = << >> THEN << >> ELSE << El(tag, run) >>)
    ELSE ParagraphSplit_nosplit(tag, Tail(content), Append(run, content[1]))

\* Paragraph._build, the loop over block_only_frags and the run after the last:
\* new_content for what is left of content, run being the inline fragments
\* since the last block-only one
RECURSIVE ParagraphSplit(_, _, _)
ParagraphSplit(tag, content, run) ==
    IF content = << >> THEN (IF run = << >> THEN << >> ELSE << El(tag, run) >>)
    ELSE IF BlockOnly(content[1])
         THEN RunBefore(tag, run) \o << content[1] >> \o ParagraphSplit(tag, Tail(content), << >>)
         ELSE ParagraphSplit(tag, Tail(content), Append(run, content[1]))

\* Paragraph._build(mo, element_store) given the fragments of its content
ParagraphBuild(tag, content) ==
    IF \E i \in 1..Len(content) : BlockOnly(content[i])
    THEN Fr(ParagraphSplit(tag, content, << >>))
    ELSE El(tag, content)

\* the element _build wraps the fragments of its content in
MACRO_ARGS ==
    {<< "n", "a", "m", "e" >>, << "a", "r", "g", "_", "s", "t", "r", "i", "n", "g" >>,
     << "b", "o", "d", "y" >>, << "i", "s", "b", "l", "o", "c", "k" >>,
     << "e", "n", "v", "i", "r", "o", "n" >>}

\* KeywordArgs.dictify, the key an item is kept under
DictKey(k) == IF k \in MACRO_ARGS THEN k \o << "_" >> ELSE k

\* KeywordArgs.dictify, the branch for a key the dictionary has: the value v
\* joins the value old of the key in a list
Gathered(old, v) ==
    IF v.k = "list"
    THEN (IF old.k = "list" THEN Ls(old.kids \o v.kids) ELSE Ls(<< old >> \o v.kids))
    ELSE IF old.k = "list" THEN Ls(Append(old.kids, v))
    ELSE Ls(<< old, v >>)

\* KeywordArgs.dictify, one pass of its loop
DictPut(d, k, v) ==
    IF \E i \in 1..Len(d) : d[i].s = k
    THEN [i \in 1..Len(d) |-> IF d[i].s = k THEN Kw(k, Gathered(d[i].kids[1], v)) ELSE d[i]]
    ELSE Append(d, Kw(k, v))

RECURSIVE DictifyFrom(_, _)
DictifyFrom(l, d) ==
    IF l = << >> THEN d
    ELSE DictifyFrom(Tail(l), DictPut(d, DictKey(l[1].s), l[1].kids[1]))

dictify(l) == Dc(DictifyFrom(l, << >>))

BuildNode(f, kids) ==
    LET e == Elements[f.el] IN
    IF e.cls \in {"SimpleElement", "Heading", "TrunkHeading"} THEN El(e.tags[f.mos[f.i].key], kids)
    ELSE IF e.cls = "Paragraph" THEN ParagraphBuild(e.tag, kids)
    ELSE IF e.cls = "KeywordArgs" THEN dictify(kids)
    ELSE El(e.tag, kids)

\* the _build of KeywordArg, PositionalArgs, QuotedArg and ListArg: what it
\* returns for an empty body, and for a body that fragmentize turned into frags
ArgClasses == {"KeywordArg", "PositionalArgs", "QuotedArg", "ListArg", "ExplicitListArg"}

ArgEmpty(f) ==
    CASE Elements[f.el].cls = "KeywordArg" -> Kw(KeywordName(f.text, f.mos[f.i].s), Txt(<< >>))
      [] Elements[f.el].cls = "PositionalArgs" -> Ls(<< >>)
      [] Elements[f.el].cls = "QuotedArg" -> Txt(<< >>)
      [] OTHER -> Xl(<< >>)

ArgValue(f, frags) ==
    CASE Elements[f.el].cls = "KeywordArg"
            -> Kw(KeywordName(f.text, f.mos[f.i].s),
                  IF Len(frags) = 1 THEN frags[1] ELSE Ls(frags))
      [] Elements[f.el].cls = "PositionalArgs" -> Ls(frags)
      [] Elements[f.el].cls = "QuotedArg" -> frags[1]
      [] OTHER -> Xl(frags)

HasContent(n) ==
    Elements[n].cls \in {"InlineElement", "SimpleElement", "NoWikiElement", "Heading",
                       "TrunkHeading", "PreBlock", "Table", "TableRow", "TableCell",
                       "Paragraph", "List", "ListItem", "NestedList", "KeywordArgs"}

\* the text _build hands to fragmentize: a group of the match; PreBlock takes the
\* space off its escaped closing tokens first
ContentText(f) ==
    IF Elements[f.el].cls = "PreBlock"
    THEN regexp2_sub(Slice(f.text, f.mos[f.i].cs, f.mos[f.i].ce), Elements[f.el].toks[2])
    ELSE Slice(f.text, f.mos[f.i].cs, f.mos[f.i].ce)

\* the remove_escapes _build passes: False in NoWikiElement and PreBlock
KeepsEscapes(n) == Elements[n].cls \in {"NoWikiElement", "PreBlock"}

\* WikiElement._process: the text before the match goes to the rest of the grammar
ProcLead(th) ==
    /\ Running(th)
    /\ LET f == Top(th) IN
       /\ f.pc = "process"
       /\ \/ Elements[f.el].proc = "block"
          \/ Elements[f.el].proc = "bodiedblock" /\ func # "body"
       /\ f.end # f.mos[f.i].s
       /\ Call(th, [f EXCEPT !.pc = "w_lead"],
               Frame(Slice(f.text, f.end, f.mos[f.i].s), Tail(f.gram), TRUE, f.st, f.gen))
    /\ UNCHANGED << stores, issued, out, multi, func, top, dialect >>

\* self._build(mo, element_store) of an element whose content is parsed with its
\* child grammar (WikiElement._build, SimpleElement._build, NoWikiElement._build)
ProcBuildContent(th) ==
    /\ Running(th)
    /\ LET f == Top(th) IN
       /\ \/ f.pc = "process" /\ Elements[f.el].proc = "inline"
          \/ f.pc = "process" /\ Elements[f.el].proc = "block" /\ f.end = f.mos[f.i].s
          \/ f.pc = "build"
       /\ HasContent(f.el)
       /\ Call(th, [f EXCEPT !.pc = "w_build"],
               FrameOn(ContentText(f), child_tags[f.el], ~ KeepsEscapes(f.el), f.st, f.gen))
    /\ UNCHANGED << stores, issued, out, multi, func, top, dialect >>

\* self._build(mo, element_store) of BlankLine and WhiteSpace (None) and of
\* LoneElement (an empty element)
ProcBuildEmpty(th) ==
    /\ Running(th)
    /\ LET f == Top(th) IN
       /\ \/ f.pc = "process" /\ f.end = f.mos[f.i].s
          \/ f.pc = "build"
       /\ Elements[f.el].proc = "block"
       /\ ~ HasContent(f.el)
       /\ Elements[f.el].cls \notin ArgClasses
       /\ Goto(th, AfterBuild(f, IF Elements[f.el].cls \in {"BlankLine", "WhiteSpace"} THEN NoFrag
                                 ELSE El(Elements[f.el].tag, << >>)))
    /\ UNCHANGED << stores, issued, out, multi, func, top, dialect >>

\* WikiElement._process: the text after the last match
ProcTrail(th) ==
    /\ Running(th)
    /\ LET f == Top(th) IN
       /\ f.pc = "trail"
       /\ IF f.tail # << >> \/ f.end < Len(f.text)
          THEN Call(th, [f EXCEPT !.pc = "w_trail"],
                    [Frame(f.tail \o Slice(f.text, f.end, Len(f.text)), RestGrammar(f), TRUE,
                           f.st, f.gen) EXCEPT !.ref = RestRef(f)])
          ELSE Goto(th, [f EXCEPT !.pc = "ret"])
    /\ UNCHANGED << stores, issued, out, multi, func, top, dialect >>

\* the objects alive: id() returns a value no live object has
LiveIds == UNION {DOMAIN stores[i] : i \in 1..Len(stores)}

\* The values id(processed) can return.  An id meets the text only as the
\* digits of a placeholder, so when no input text holds a digit the values are
\* interchangeable and one of them stands for all.
InputHasDigit == \E th \in Threads : \E k \in 1..Len(top[th].text) : IsDigit(top[th].text[k])
IdChoices ==
    IF InputHasDigit \/ IdPool \ LiveIds = {} THEN IdPool \ LiveIds
    ELSE {CHOOSE id \in IdPool \ LiveIds : TRUE}

\* InlineElement._process and Macro._process: store_id = str(id(processed));
\* element_store[store_id] = processed; the placeholder replaces the match
ProcStore(th) ==
    /\ Running(th)
    /\ LET f == Top(th) IN
       /\ f.pc = "store"
       /\ \E id \in IdChoices :
            /\ stores' = [stores EXCEPT ![f.st] = (id :> f.built) @@ @]
            /\ issued' = [issued EXCEPT ![f.gen] = (id :> f.built) @@ @]
            /\ Goto(th, [f EXCEPT !.acc = f.acc \o Slice(f.text, f.end, f.mos[f.i].s)
                                                 \o PlaceHolder(id),
                                  !.end = f.mos[f.i].e,
                                  !.i = IF f.i < Len(f.mos) THEN f.i + 1 ELSE f.i,
                                  !.pc = IF f.i < Len(f.mos) THEN "process" ELSE "rerun"])
    /\ UNCHANGED << out, multi, func, top, dialect >>

\* ProcRerun passing on the remove_escapes of the call it is in
ProcRerun_sameflag(th) ==
    /\ Running(th)
    /\ LET f == Top(th) IN
       /\ f.pc = "rerun"
       /\ Call(th, [f EXCEPT !.pc = "w_rerun"],
               [Frame(f.acc \o f.tail \o Slice(f.text, f.end, Len(f.text)),
                      IF Elements[f.el].proc \in {"macro", "bodied", "bodiedblock"} THEN f.gram
                      ELSE RestGrammar(f),
                      f.esc, f.st, f.gen)
                  EXCEPT !.ref = IF Elements[f.el].proc \in {"macro", "bodied", "bodiedblock"}
                                 THEN f.ref ELSE RestRef(f)])
    /\ UNCHANGED << stores, issued, out, multi, func, top, dialect >>

\* InlineElement._process and Macro._process: fragmentize the new text
ProcRerun(th) ==
    /\ Running(th)
    /\ LET f == Top(th) IN
       /\ f.pc = "rerun"
       /\ Call(th, [f EXCEPT !.pc = "w_rerun"],
               [Frame(f.acc \o f.tail \o Slice(f.text, f.end, Len(f.text)),
                      IF Elements[f.el].proc \in {"macro", "bodied", "bodiedblock"} THEN f.gram
                      ELSE RestGrammar(f),
                      TRUE, f.st, f.gen)
                  EXCEPT !.ref = IF Elements[f.el].proc \in {"macro", "bodied", "bodiedblock"}
                                 THEN f.ref ELSE RestRef(f)])
    /\ UNCHANGED << stores, issued, out, multi, func, top, dialect >>

\* ------------------------------------------------------------------ macros

EmptyStore == [id \in {} |-> NoFrag]

\* NewStore with one dictionary for the whole process, emptied by every generate
NewStore_shared(th, ss) ==
    [st |-> 1, stores |-> IF ss = << >> THEN << EmptyStore >> ELSE [ss EXCEPT ![1] = EmptyStore]]

\* the store a generate call works on: a new dictionary (core.py:63-64)
NewStore(th, ss) == [st |-> Len(ss) + 1, stores |-> Append(ss, EmptyStore)]

\* the source text of the macro matched by mo, as Macro._build rebuilds it
MacroSource(f) ==
    Elements[f.el].toks[1] \o Slice(f.text, f.mos[1].cs, f.mos[1].ce) \o Elements[f.el].toks[2]

\* mo.group(4), the macro's argument string
MacroArg(f) == Slice(f.text, f.mos[1].cs + f.mos[1].key, f.mos[1].ce)

\* Macro._process with a macro_func that returns None (or no macro_func; "body"
\* returns the body it is given, None for a macro without one):
\* _build returns a code element, which goes to the store
MacroUnknown(th) ==
    /\ Running(th)
    /\ LET f == Top(th) IN
       /\ f.pc = "process"
       /\ Elements[f.el].proc = "macro"
       /\ func \in {"none", "body"}
       /\ Goto(th, [f EXCEPT !.built = ElA("code", << Txt(MacroSource(f)) >>,
                                           << "class", "unknown_macro" >>),
                             !.pc = "store"])
    /\ UNCHANGED << stores, issued, out, multi, func, top, dialect >>

\* MacroString handling the string as it handles an element: it goes to the store
MacroString_stored(th) ==
    /\ Running(th)
    /\ LET f == Top(th) IN
       /\ f.pc = "process"
       /\ Elements[f.el].proc = "macro"
       /\ func \in {"str", "echo"}
       /\ Goto(th, [f EXCEPT !.built = Txt(IF func = "str"
                                           THEN StarStar \o MacroArg(f) \o StarStar
                                           ELSE MacroSource(f)),
                             !.pc = "store"])
    /\ UNCHANGED << stores, issued, out, multi, func, top, dialect >>

\* Macro._process with a macro_func that returns a string: the string replaces
\* the macro in the text.  "str" returns '**' + arg_string + '**'
\* (tests.py:541-542), "echo" returns the macro's own source.
MacroString(th) ==
    /\ Running(th)
    /\ LET f == Top(th) IN
       /\ f.pc = "process"
       /\ Elements[f.el].proc = "macro"
       /\ func \in {"str", "echo"}
       /\ Goto(th, [f EXCEPT !.acc = Slice(f.text, 0, f.mos[1].s)
                                       \o (IF func = "str"
                                           THEN StarStar \o MacroArg(f) \o StarStar
                                           ELSE MacroSource(f)),
                             !.end = f.mos[1].e,
                             !.pc = "rerun"])
    /\ UNCHANGED << stores, issued, out, multi, func, top, dialect >>

\* the macro_funcs that return a genshi object, and what they return for an
\* argument string: builder.tag.strong(arg_string) ("node", tests.py:543-544),
\* builder.tag.pre(arg_string) ("pre"), a Stream ("stream", as getStream of
\* tests.py:517-520) and Markup(arg_string) ("markup")
NodeFuncs == {"node", "pre", "stream", "markup"}
MacroNodeOf(fn, arg) ==
    CASE fn = "node"   -> El("strong", << Txt(arg) >>)
      [] fn = "pre"    -> El("pre", << Txt(arg) >>)
      [] fn = "stream" -> St(<< Mk(arg) >>)
      [] fn = "markup" -> Mk(arg)

\* Macro._process with a macro_func that returns a genshi object or a Markup
\* string: it goes to the store
MacroNode(th) ==
    /\ Running(th)
    /\ LET f == Top(th) IN
       /\ f.pc = "process"
       /\ Elements[f.el].proc = "macro"
       /\ func \in NodeFuncs
       /\ Goto(th, [f EXCEPT !.built = MacroNodeOf(func, MacroArg(f)), !.pc = "store"])
    /\ UNCHANGED << stores, issued, out, multi, func, top, dialect >>

\* Macro._build with a macro_func that returns neither None, a string nor a
\* genshi object: the raise statement of its last branch ends the parse
MacroBad(th) ==
    /\ Running(th)
    /\ LET f == Top(th) IN
       /\ f.pc = "process"
       /\ Elements[f.el].proc = "macro"
       /\ func = "bad"
       /\ Raise(th, "TypeError")
    /\ UNCHANGED << stores, issued, out, multi, func, top, dialect >>

\* Macro._process with a macro_func that calls the parser again
\* (tests.py:531-532): generate(arg_string, context='inline')
MacroGenerate(th) ==
    /\ Running(th)
    /\ LET f == Top(th)
           ns == NewStore(th, stores) IN
       /\ f.pc = "process"
       /\ Elements[f.el].proc = "macro"
       /\ func = "gen"
       /\ stores' = ns.stores
       /\ issued' = Append(issued, EmptyStore)
       /\ Call(th, [f EXCEPT !.pc = "w_cb"],
               FrameOn(MacroArg(f), ModuleList(top[th].gram), TRUE, ns.st, Len(issued) + 1))
    /\ UNCHANGED << out, multi, func, top, dialect >>

\* -------------------------------------------------- macros with a body

\* mo.group('name'), mo.group('arg_string') and mo.group('body') of the match
\* the frame works on
BodiedName(f) ==
    LET mo == f.mos[1]
        c == mo.s + Len(Elements[f.el].toks[1])
    IN  Slice(f.text, c, c + mo.key)

BodiedArgString(f) ==
    LET mo == f.mos[1]
        e == Elements[f.el]
        k == IF e.cls = "BodiedMacro" THEN mo.cs - Len(e.toks[2])
             ELSE BlockArgEnd(f.text, e.toks[1], e.toks[2], mo.s)
    IN  Slice(f.text, mo.s + Len(e.toks[1]) + mo.key, k)

WholeBody(f) == Slice(f.text, f.mos[1].cs, f.mos[1].ce)

OpenTag(f) ==
    Elements[f.el].toks[1] \o BodiedName(f) \o BodiedArgString(f) \o Elements[f.el].toks[2]

\* where the for loop of _build cuts the body
BodiedCut(f) ==
    LET e == Elements[f.el] IN
    IF e.cls = "BodiedMacro"
    THEN BodiedScan(WholeBody(f), e.toks[1], e.toks[2], BodiedName(f), 0, 0)
    ELSE BlockScan(WholeBody(f), e.toks[1], e.toks[2], BodiedName(f), 0, 0)

\* body and tail as _build leaves them
BodiedBody(f) ==
    IF BodiedCut(f).cut = -1 THEN WholeBody(f) ELSE Slice(WholeBody(f), 0, BodiedCut(f).cut)

BodiedTail(f) ==
    LET e == Elements[f.el] IN
    IF BodiedCut(f).cut = -1 THEN << >>
    ELSE Slice(WholeBody(f), BodiedCut(f).after, Len(WholeBody(f)))
         \o CloseTag(e.toks[1], e.toks[2], BodiedName(f))
         \o (IF e.cls = "BodiedBlockMacro" THEN << "\n" >> ELSE << >>)

\* body.splitlines()
RECURSIVE SplitLines(_)
SplitLines(b) ==
    IF b = << >> THEN << >>
    ELSE LET n == LineEnd(b, 0) IN
         << Slice(b, 0, n) >>
         \o (IF n < Len(b) THEN SplitLines(Slice(b, n + 1, Len(b))) ELSE << >>)

\* ContentOut without the br elements
RECURSIVE ContentOut_nobr(_)
ContentOut_nobr(lines) ==
    IF lines = << >> THEN << >>
    ELSE << Txt(lines[1]) >> \o ContentOut_nobr(Tail(lines))

\* the lines with a br element between them
RECURSIVE ContentOut(_)
ContentOut(lines) ==
    IF lines = << >> THEN << >>
    ELSE IF Len(lines) = 1 THEN << Txt(lines[1]) >>
    ELSE << Txt(lines[1]), El("br", << >>) >> \o ContentOut(Tail(lines))

\* what _build returns when the macro_func returns None
UnknownBodied(f) ==
    LET e == Elements[f.el]
        close == CloseTag(e.toks[1], e.toks[2], BodiedName(f))
    IN  IF e.cls = "BodiedMacro"
        THEN ElA("code", << Txt(OpenTag(f)) >> \o ContentOut(SplitLines(BodiedBody(f)))
                         \o << Txt(close) >>, << "class", "unknown_macro" >>)
        ELSE ElA("pre", << Txt(OpenTag(f) \o << "\n" >> \o BodiedBody(f) \o close) >>,
                 << "class", "unknown_macro" >>)

\* Macro._process of a BodiedMacro whose macro_func returns None: the code
\* element goes to the store
BodiedUnknown(th) ==
    /\ Running(th)
    /\ LET f == Top(th) IN
       /\ f.pc = "process"
       /\ Elements[f.el].proc = "bodied"
       /\ func = "none"
       /\ Goto(th, [f EXCEPT !.built = UnknownBodied(f), !.tail = BodiedTail(f), !.pc = "store"])
    /\ UNCHANGED << stores, issued, out, multi, func, top, dialect >>

\* Macro._process and BlockMacro._process with a macro_func that returns the
\* body it is given (tests.py, 'ifloggedin'): the string and the tail replace
\* the macro in the text
BodiedString(th) ==
    /\ Running(th)
    /\ LET f == Top(th) IN
       /\ f.pc = "process"
       /\ Elements[f.el].proc \in {"bodied", "bodiedblock"}
       /\ func = "body"
       /\ Goto(th, [f EXCEPT !.acc = Slice(f.text, 0, f.mos[1].s) \o BodiedBody(f),
                             !.tail = BodiedTail(f),
                             !.end = f.mos[1].e,
                             !.pc = "rerun"])
    /\ UNCHANGED << stores, issued, out, multi, func, top, dialect >>

\* BlockMacro._process of a BodiedBlockMacro whose macro_func returns None:
\* the pre element is appended to the fragments
BlockMacroBuild(th) ==
    /\ Running(th)
    /\ LET f == Top(th) IN
       /\ \/ f.pc = "process" /\ f.end = f.mos[1].s
          \/ f.pc = "build"
       /\ Elements[f.el].proc = "bodiedblock"
       /\ func = "none"
       /\ Goto(th, [f EXCEPT !.frags = f.frags \o << UnknownBodied(f) >>,
                             !.tail = BodiedTail(f),
                             !.end = f.mos[1].e,
                             !.pc = "trail"])
    /\ UNCHANGED << stores, issued, out, multi, func, top, dialect >>

\* ------------------------------------------------------ links and images

\* group(1) of the match being worked on
Content(f) == Slice(f.text, f.mos[f.i].cs, f.mos[f.i].ce)

\* RawLink.href
RawLinkHref(url) == IF is_safe_uri(url) THEN url ELSE unsafe_uri_detected

linking_protocols == {<< "h", "t", "t", "p" >>, << "h", "t", "t", "p", "s" >>}

\* group(3) of RawLink's pattern: the URL up to its ://
RawLinkProtocol(url) == Slice(url, 0, MinOf({k \in 1..Len(url) : url[k] = ":"}) - 1)

\* RawLink._build: an a element, or the URL as a string when the escape
\* character is there or the protocol is not a linking one
RawLinkNode(f) ==
    IF f.mos[f.i].key = 0 /\ RawLinkProtocol(Content(f)) \in linking_protocols
    THEN ElA("a", << Txt(RawLinkHref(Content(f))) >>, HrefAttr(RawLinkHref(Content(f))))
    ELSE Txt(RawLinkHref(Content(f)))

RawLinkBuild(th) ==
    /\ Running(th)
    /\ LET f == Top(th) IN
       /\ f.pc = "process"
       /\ Elements[f.el].cls = "RawLink"
       /\ Goto(th, AfterBuild(f, RawLinkNode(f)))
    /\ UNCHANGED << stores, issued, out, multi, func, top, dialect >>

ImageBuild(th) ==
    /\ Running(th)
    /\ LET f == Top(th) IN
       /\ f.pc = "process"
       /\ Elements[f.el].cls = "Image"
       /\ Goto(th, AfterBuild(f, ImageNode(Content(f))))
    /\ UNCHANGED << stores, issued, out, multi, func, top, dialect >>

\* what Link._build returns: bldr.tag(link) around the a element or the string
\* the link type has built, or mo.group(0) when link is None
LinkBuilt(f, kids, plan) ==
    IF plan.kind \in {"url", "interwiki", "wiki"}
    THEN El("", << ElA("a", kids, HrefAttr(plan.href)) >>)
    ELSE IF plan.kind = "literal" THEN El("", plan.kids)
    ELSE Txt(Slice(f.text, f.mos[f.i].s, f.mos[f.i].e))

LinkNode(f, kids) == LinkBuilt(f, kids, LinkPlan(Content(f)))

\* Link._build; the alias of the link type that makes the link goes to
\* fragmentize with the link's child grammar
LinkBuild(th) ==
    /\ Running(th)
    /\ LET f == Top(th) IN
       /\ f.pc = "process"
       /\ Elements[f.el].cls = "Link"
       /\ \E plan \in {LinkPlan(Content(f))} :
             IF plan.parse
             THEN Call(th, [f EXCEPT !.pc = "w_link"],
                       FrameOn(plan.alias, child_tags[f.el], TRUE, f.st, f.gen))
             ELSE Goto(th, AfterBuild(f, LinkBuilt(f, plan.kids, plan)))
    /\ UNCHANGED << stores, issued, out, multi, func, top, dialect >>

\* ------------------------------------------------------ argument strings

\* the _build of the elements of an argument string: an empty body gives the
\* value at once, any other goes to fragmentize with the child elements
ArgBuild(th) ==
    /\ Running(th)
    /\ LET f == Top(th) IN
       /\ \/ f.pc = "process" /\ Elements[f.el].proc = "inline"
          \/ f.pc = "process" /\ Elements[f.el].proc = "block" /\ f.end = f.mos[f.i].s
          \/ f.pc = "build"
       /\ Elements[f.el].cls \in ArgClasses
       /\ IF Content(f) = << >>
          THEN Goto(th, AfterBuild(f, ArgEmpty(f)))
          ELSE Call(th, [f EXCEPT !.pc = "w_arg"],
                    FrameOn(Content(f), child_tags[f.el], TRUE, f.st, f.gen))
    /\ UNCHANGED << stores, issued, out, multi, func, top, dialect >>

\* the call made by QuotedArg._build is about to return something other than
\* one fragment
QuotedArgFails(th) ==
    /\ Len(stk[th]) >= 2
    /\ Top(th).pc = "ret"
    /\ stk[th][Len(stk[th]) - 1].pc = "w_arg"
    /\ Elements[stk[th][Len(stk[th]) - 1].el].cls = "QuotedArg"
    /\ Len(Top(th).frags) # 1

\* QuotedArg._build: assert len(frags) == 1
QuotedArgAssert(th) ==
    /\ Running(th)
    /\ QuotedArgFails(th)
    /\ Raise(th, "AssertionError")
    /\ UNCHANGED << stores, issued, out, multi, func, top, dialect >>

\* ------------------------------------------------------------------ return

\* the caller's frame c after the call it waits for has returned frags
Resume(c, frags) ==
    CASE c.pc = "w_lead"  -> [c EXCEPT !.frags = c.frags \o frags, !.pc = "build"]
      [] c.pc = "w_build" -> AfterBuild(c, BuildNode(c, frags))
      [] c.pc = "w_trail" -> [c EXCEPT !.frags = c.frags \o frags, !.pc = "ret"]
      [] c.pc = "w_rerun" -> [c EXCEPT !.frags = frags, !.pc = "ret"]
      [] c.pc = "w_cb"    -> [c EXCEPT !.built = El("span", frags), !.pc = "store"]
      [] c.pc = "w_link"  -> AfterBuild(c, LinkNode(c, frags))
      [] c.pc = "w_arg"   -> AfterBuild(c, ArgValue(c, frags))

\* return frags: to the caller, or out of generate
Return(th) ==
    /\ Running(th)
    /\ LET f == Top(th)
           n == Len(stk[th]) IN
       /\ f.pc = "ret"
       /\ ~ QuotedArgFails(th)
       /\ IF n = 1
          THEN /\ stk' = [stk EXCEPT ![th] = << >>]
               /\ out' = [out EXCEPT ![th] = f.frags]
               /\ status' = [status EXCEPT ![th] = "done"]
          ELSE /\ stk' = [stk EXCEPT ![th] =
                             Append(SubSeq(@, 1, n - 2), Resume(@[n - 1], f.frags))]
               /\ UNCHANGED << out, status >>
    /\ UNCHANGED << stores, issued, multi, func, top, dialect >>

\* Parser.generate(text, context=...) (core.py:44-79)
Generate(th) ==
    /\ status[th] = "new"
    /\ LET ns == NewStore(th, stores) IN
       /\ stores' = ns.stores
       /\ issued' = Append(issued, EmptyStore)
       /\ stk' = [stk EXCEPT ![th] =
                     << FrameOn(IF top[th].context = "block" THEN preprocess(top[th].text)
                                ELSE top[th].text,
                                ModuleList(top[th].gram), TRUE, ns.st, Len(issued) + 1) >>]
       /\ status' = [status EXCEPT ![th] = "run"]
    /\ UNCHANGED << out, multi, func, top, dialect >>

\* ----------------------------------------------------------- the inputs

\* the texts made of at most MaxPieces of the given pieces
TextsOf(pieces) ==
    {Flatten(ps) : ps \in UNION {[1..k -> pieces] : k \in 0..MaxPieces}}

Tilde == << "~" >>
LetterA == << "a" >>
Blank == << " " >>
Newline == << "\n" >>
HrLine == << "-", "-", "-", "-", "\n" >>

\* the calls made of the parser: the grammar, the context and the pieces of
\* the text, and the macro_func of the dialect
Scenarios ==
    { [gram |-> "simple", context |-> "inline", funcs |-> {"none"},
       pieces |-> {StarStar, SlashSlash, Tilde, LetterA, Blank, Tilde \o StarStar}],
      [gram |-> "simple", context |-> "inline", funcs |-> {"none"},
       pieces |-> {StarStar, LetterA, StarStar \o LetterA, PlaceHolder(<< "1" >>),
                   PlaceHolder(<< "~", "1" >>)}],
      [gram |-> "none", context |-> "inline", funcs |-> {"none"},
       pieces |-> {Tilde, LetterA, Blank, Newline, << "\t" >>, PlaceHolder(<< "1" >>)}],
      [gram |-> "ordered", context |-> "inline", funcs |-> {"none"},
       pieces |-> {StarStar \o LetterA, SlashSlash \o LetterA, StarStar, SlashSlash, Tilde}],
      [gram |-> "grp1", context |-> "inline", funcs |-> {"none"},
       pieces |-> {<< "*" >>, LetterA, StarStar \o LetterA, Tilde}],
      [gram |-> "grp2", context |-> "inline", funcs |-> {"none"},
       pieces |-> {<< "*" >>, LetterA, StarStar \o LetterA, Tilde}],
      [gram |-> "block", context |-> "block", funcs |-> {"none"},
       pieces |-> {LetterA, LetterA \o Newline, Newline, HrLine, StarStar \o LetterA,
                   << "\r" >>}],
      [gram |-> "blockgrp", context |-> "block", funcs |-> {"none"},
       pieces |-> {LetterA \o Newline, Newline, HrLine}],
      [gram |-> "nowiki", context |-> "inline", funcs |-> {"none"},
       pieces |-> {<< "{", "{", "{" >>, << "}", "}", "}" >>, Tilde, LetterA, StarStar}],
      [gram |-> "macro", context |-> "inline",
       funcs |-> {"none", "str", "echo", "gen", "node", "bad"},
       pieces |-> {<< "<", "<", "m", ">", ">" >>, << "<", "<", "m" >>, << ">", ">" >>,
                   StarStar \o LetterA, Tilde}] }

\* the texts of two parses that run at the same time
ConcTexts == {StarStar \o LetterA, SlashSlash \o LetterA \o StarStar \o LetterA}

Idle == [text |-> << >>, gram |-> "none", context |-> "inline"]

Init ==
    /\ stk = [th \in Threads |-> << >>]
    /\ stores = << >>
    /\ issued = << >>
    /\ out = [th \in Threads |-> << >>]
    /\ multi \in BOOLEAN
    /\ ModuleDialect
    /\ \/ \E sc \in Scenarios :
            /\ func \in sc.funcs
            /\ \E t \in TextsOf(sc.pieces) :
                 top = [th \in Threads |->
                          IF th = "t1"
                          THEN [text |-> t, gram |-> sc.gram, context |-> sc.context]
                          ELSE Idle]
            /\ status = [th \in Threads |-> IF th = "t1" THEN "new" ELSE "idle"]
       \/ /\ func = "none"
          /\ top \in [Threads -> {[text |-> t, gram |-> "simple", context |-> "inline"] :
                                    t \in ConcTexts}]
          /\ status = [th \in Threads |-> "new"]

Next ==
    \E th \in Threads :
       \/ Generate(th)
       \/ FragLeaf(th)
       \/ FragDrop(th)
       \/ FragMatch(th)
       \/ ProcLead(th)
       \/ ProcBuildContent(th)
       \/ ProcBuildEmpty(th)
       \/ ProcTrail(th)
       \/ ProcStore(th)
       \/ ProcRerun(th)
       \/ MacroUnknown(th)
       \/ MacroString(th)
       \/ MacroGenerate(th)
       \/ MacroNode(th)
       \/ MacroBad(th)
       \/ Return(th)

Spec == Init /\ [][Next]_vars

\* ------------------------------------------- the parses of bodied macros

MacroOpenA == << "<", "<", "m", ">", ">", "a" >>
MacroEnd == << "<", "<", "/", "m", ">", ">" >>
BlockOpenA == << "<", "<", "m", ">", ">", "\n", "a", "\n" >>

\* the calls made of a parser whose grammar holds macros with a body
MacroScenarios ==
    { [gram |-> "bodied", context |-> "inline", funcs |-> {"none", "body"},
       pieces |-> {MacroOpenA, MacroEnd, MacroOpenA \o MacroEnd, StarStar \o LetterA,
                   Tilde, Newline}],
      [gram |-> "bodiedblock", context |-> "block", funcs |-> {"none", "body"},
       pieces |-> {BlockOpenA, MacroEnd \o Newline, BlockOpenA \o MacroEnd \o Newline,
                   LetterA \o Newline, HrLine, Newline}] }

InitMacro ==
    /\ stk = [th \in Threads |-> << >>]
    /\ stores = << >>
    /\ issued = << >>
    /\ out = [th \in Threads |-> << >>]
    /\ multi \in BOOLEAN
    /\ ModuleDialect
    /\ \E sc \in MacroScenarios :
          /\ func \in sc.funcs
          /\ \E t \in TextsOf(sc.pieces) :
               top = [th \in Threads |->
                        IF th = "t1"
                        THEN [text |-> t, gram |-> sc.gram, context |-> sc.context]
                        ELSE Idle]
    /\ status = [th \in Threads |-> IF th = "t1" THEN "new" ELSE "idle"]

NextMacro ==
    \E th \in Threads :
       \/ Generate(th)
       \/ FragLeaf(th)
       \/ FragDrop(th)
       \/ FragMatch(th)
       \/ ProcLead(th)
       \/ ProcBuildContent(th)
       \/ ProcBuildEmpty(th)
       \/ ProcTrail(th)
       \/ ProcStore(th)
       \/ ProcRerun(th)
       \/ MacroUnknown(th)
       \/ BodiedUnknown(th)
       \/ BodiedString(th)
       \/ BlockMacroBuild(th)
       \/ Return(th)

SpecMacro == InitMacro /\ [][NextMacro]_vars

\* --------------------------------------------- the parses of links and images

HttpA == << "h", "t", "t", "p", ":", "/", "/", "a" >>
HttpsA == << "h", "t", "t", "p", "s", ":", "/", "/", "a" >>
FtpA == << "f", "t", "p", ":", "/", "/", "a" >>

LinkPieces == {LetterA, << "w", ":" >>, << "H", "t", "t", "p", ":" >>, << ":" >>, << "/" >>,
               << "|" >>, Blank, Newline}

\* the calls made of a parser whose grammar holds images, links and raw links:
\* the text is the pieces between open and close
LinkScenarios ==
    { [gram |-> "links", open |-> << "[", "[" >>, close |-> << "]", "]" >>,
       pieces |-> LinkPieces],
      [gram |-> "links", open |-> << "{", "{" >>, close |-> << "}", "}" >>,
       pieces |-> LinkPieces],
      [gram |-> "links", open |-> << >>, close |-> << >>,
       pieces |-> {HttpA, HttpsA, FtpA, Tilde, Blank, << "." >>, LetterA, StarStar}] }

InitLink ==
    /\ stk = [th \in Threads |-> << >>]
    /\ stores = << >>
    /\ issued = << >>
    /\ out = [th \in Threads |-> << >>]
    /\ multi \in BOOLEAN
    /\ ModuleDialect
    /\ func = "none"
    /\ \E sc \in LinkScenarios :
          \E t \in TextsOf(sc.pieces) :
             top = [th \in Threads |->
                      IF th = "t1"
                      THEN [text |-> sc.open \o t \o sc.close, gram |-> sc.gram,
                            context |-> "inline"]
                      ELSE Idle]
    /\ status = [th \in Threads |-> IF th = "t1" THEN "new" ELSE "idle"]

NextLink ==
    \E th \in Threads :
       \/ Generate(th)
       \/ FragLeaf(th)
       \/ FragDrop(th)
       \/ FragMatch(th)
       \/ ProcBuildContent(th)
       \/ ProcStore(th)
       \/ ProcRerun(th)
       \/ RawLinkBuild(th)
       \/ ImageBuild(th)
       \/ LinkBuild(th)
       \/ Return(th)

SpecLink == InitLink /\ [][NextLink]_vars

\* ------------------------------------------------- the parses of headings

Equals == << "=" >>

\* the calls made of a parser whose block grammar holds headings, the Heading of
\* the revision at hand: the text is the pieces, with or without a newline at
\* its end
HeadingScenarios ==
    { [close |-> cl,
       pieces |-> {Equals, << "=", "=" >>, << "=", "=", "=", "=", "=" >>, LetterA, Blank,
                   Newline, StarStar \o LetterA, << "a", "=", "a" >>}] :
      cl \in {<< >>, Newline} }

InitHeading ==
    /\ stk = [th \in Threads |-> << >>]
    /\ stores = << >>
    /\ issued = << >>
    /\ out = [th \in Threads |-> << >>]
    /\ multi \in BOOLEAN
    /\ ModuleDialect
    /\ func = "none"
    /\ \E sc \in HeadingScenarios :
          \E t \in TextsOf(sc.pieces) :
             top = [th \in Threads |->
                      IF th = "t1"
                      THEN [text |-> t \o sc.close,
                            gram |-> IF multi THEN "trunk_headings" ELSE "headings",
                            context |-> "block"]
                      ELSE Idle]
    /\ status = [th \in Threads |-> IF th = "t1" THEN "new" ELSE "idle"]

NextHeading ==
    \E th \in Threads :
       \/ Generate(th)
       \/ FragLeaf(th)
       \/ FragDrop(th)
       \/ FragMatch(th)
       \/ ProcLead(th)
       \/ ProcBuildContent(th)
       \/ ProcTrail(th)
       \/ ProcStore(th)
       \/ ProcRerun(th)
       \/ Return(th)

SpecHeading == InitHeading /\ [][NextHeading]_vars

\* --------------------------------- the parses of preformatted and no-wiki text

PreOpen == << "{", "{", "{", "\n" >>
PreClose == << "}", "}", "}", "\n" >>
NoWikiOpen == << "{", "{", "{" >>
NoWikiClose == << "}", "}", "}" >>

\* the calls made of a parser whose block grammar starts with the preformatted
\* block, and of one whose no-wiki element has child_tags (blank_line, hr and
\* simple_elements): the text is the pieces between open and close
PreScenarios ==
    { [gram |-> "pre", context |-> "block", open |-> PreOpen, close |-> PreClose,
       pieces |-> {LetterA \o Newline, Blank \o PreClose, Blank, Newline, Tilde,
                   StarStar \o LetterA, PreClose}],
      [gram |-> "nowikikids", context |-> "inline", open |-> NoWikiOpen, close |-> NoWikiClose,
       pieces |-> {StarStar \o LetterA, StarStar, Tilde \o LetterA, LetterA, Newline, HrLine}] }

InitPre ==
    /\ stk = [th \in Threads |-> << >>]
    /\ stores = << >>
    /\ issued = << >>
    /\ out = [th \in Threads |-> << >>]
    /\ multi \in BOOLEAN
    /\ ModuleDialect
    /\ func = "none"
    /\ \E sc \in PreScenarios :
          \E t \in TextsOf(sc.pieces) :
             top = [th \in Threads |->
                      IF th = "t1"
                      THEN [text |-> sc.open \o t \o sc.close, gram |-> sc.gram,
                            context |-> sc.context]
                      ELSE Idle]
    /\ status = [th \in Threads |-> IF th = "t1" THEN "new" ELSE "idle"]

NextPre ==
    \E th \in Threads :
       \/ Generate(th)
       \/ FragLeaf(th)
       \/ FragDrop(th)
       \/ FragMatch(th)
       \/ ProcLead(th)
       \/ ProcBuildContent(th)
       \/ ProcBuildEmpty(th)
       \/ ProcTrail(th)
       \/ ProcStore(th)
       \/ ProcRerun(th)
       \/ Return(th)

SpecPre == InitPre /\ [][NextPre]_vars

\* ------------------------------------------------------ the parses of tables

Bar == << "|" >>

\* the calls made of a parser whose block grammar is blank_line, table and p,
\* with the child_tags Creole.__init__ gives tables (br left out: no text here
\* holds its token); the text is the pieces and a final newline
TablePieces ==
    {Bar \o LetterA, Bar, Tilde \o Bar, << "|", "=", "b" >>, Newline, Blank,
     LetterA \o Newline, Bar \o LetterA \o Newline, StarStar \o LetterA}

InitTable ==
    /\ stk = [th \in Threads |-> << >>]
    /\ stores = << >>
    /\ issued = << >>
    /\ out = [th \in Threads |-> << >>]
    /\ multi \in BOOLEAN
    /\ ModuleDialect
    /\ func = "none"
    /\ \E t \in TextsOf(TablePieces) :
          top = [th \in Threads |->
                   IF th = "t1"
                   THEN [text |-> t \o Newline, gram |-> "tables", context |-> "block"]
                   ELSE Idle]
    /\ status = [th \in Threads |-> IF th = "t1" THEN "new" ELSE "idle"]

NextTable ==
    \E th \in Threads :
       \/ Generate(th)
       \/ FragLeaf(th)
       \/ FragDrop(th)
       \/ FragMatch(th)
       \/ ProcLead(th)
       \/ ProcBuildContent(th)
       \/ ProcBuildEmpty(th)
       \/ ProcTrail(th)
       \/ ProcStore(th)
       \/ ProcRerun(th)
       \/ Return(th)

SpecTable == InitTable /\ [][NextTable]_vars

\* ------------------------------------------------------- the parses of lists

Star == << "*" >>
Hash == << "#" >>

\* the calls made of a parser whose block grammar is blank_line, ul, ol and p,
\* with the child_tags Creole.__init__ gives lists (br left out: no text here
\* holds its token); the text is made of whole lines
ListPieces ==
    {Star \o LetterA \o Newline, StarStar \o << "b" >> \o Newline, Hash \o << "c" >> \o Newline,
     Hash \o Hash \o << "d" >> \o Newline, Star \o StarStar \o << "e" >> \o Newline,
     LetterA \o Newline, Star \o Hash \o << "f" >> \o Newline, Star \o Newline}

InitList ==
    /\ stk = [th \in Threads |-> << >>]
    /\ stores = << >>
    /\ issued = << >>
    /\ out = [th \in Threads |-> << >>]
    /\ multi \in BOOLEAN
    /\ ModuleDialect
    /\ func = "none"
    /\ \E t \in TextsOf(ListPieces) :
          top = [th \in Threads |->
                   IF th = "t1"
                   THEN [text |-> t, gram |-> "lists", context |-> "block"]
                   ELSE Idle]
    /\ status = [th \in Threads |-> IF th = "t1" THEN "new" ELSE "idle"]

NextList ==
    \E th \in Threads :
       \/ Generate(th)
       \/ FragLeaf(th)
       \/ FragDrop(th)
       \/ FragMatch(th)
       \/ ProcLead(th)
       \/ ProcBuildContent(th)
       \/ ProcTrail(th)
       \/ ProcStore(th)
       \/ ProcRerun(th)
       \/ Return(th)

SpecList == InitList /\ [][NextList]_vars

\* -------------------------------------------------- the parses of paragraphs

MacroM == << "<", "<", "m", ">", ">" >>

\* the child_tags of the dialect after CreolePlus.__init__: the paragraph's
\* are the inline elements with the macros (br left out)
PlusDialect ==
    /\ child_tags = [ModuleChildTags EXCEPT !["p"] = ModuleList("inline_plus")]
    /\ lists = ModuleLists
    /\ made = << >>

\* the calls made of a parser whose block grammar is blank_line and p, with a
\* macro_func that returns an inline element, a block-only element, a Stream,
\* a Markup string or None; the text is the pieces and a final newline
ParaPieces == {MacroM, LetterA, Newline, StarStar \o LetterA, MacroM \o Newline}
ParaFuncs == {"none", "node", "pre", "stream", "markup"}

InitPara ==
    /\ stk = [th \in Threads |-> << >>]
    /\ stores = << >>
    /\ issued = << >>
    /\ out = [th \in Threads |-> << >>]
    /\ multi \in BOOLEAN
    /\ PlusDialect
    /\ func \in ParaFuncs
    /\ \E t \in TextsOf(ParaPieces) :
          top = [th \in Threads |->
                   IF th = "t1"
                   THEN [text |-> t \o Newline, gram |-> "paras", context |-> "block"]
                   ELSE Idle]
    /\ status = [th \in Threads |-> IF th = "t1" THEN "new" ELSE "idle"]

NextPara ==
    \E th \in Threads :
       \/ Generate(th)
       \/ FragLeaf(th)
       \/ FragDrop(th)
       \/ FragMatch(th)
       \/ ProcLead(th)
       \/ ProcBuildContent(th)
       \/ ProcBuildEmpty(th)
       \/ ProcTrail(th)
       \/ ProcStore(th)
       \/ ProcRerun(th)
       \/ MacroUnknown(th)
       \/ MacroNode(th)
       \/ Return(th)

SpecPara == InitPara /\ [][NextPara]_vars

\* -------------------------------- the parses of the dialect's inline elements

NoWikiA == << "{", "{", "{", "a", "}", "}", "}" >>

\* the calls made of a parser with the inline grammar of Creole.__init__ (br
\* left out), where no_wiki is searched before img and link: the text is the
\* pieces between open and close
InlineScenarios ==
    { [open |-> << "[", "[" >>, close |-> << "]", "]" >>],
      [open |-> << "{", "{" >>, close |-> << "}", "}" >>],
      [open |-> << >>, close |-> << >>] }
InlinePieces == {LetterA, NoWikiA, Blank, << "|" >>, StarStar \o LetterA, StarStar}

InitInline ==
    /\ stk = [th \in Threads |-> << >>]
    /\ stores = << >>
    /\ issued = << >>
    /\ out = [th \in Threads |-> << >>]
    /\ multi \in BOOLEAN
    /\ ModuleDialect
    /\ func = "none"
    /\ \E sc \in InlineScenarios :
          \E t \in TextsOf(InlinePieces) :
             top = [th \in Threads |->
                      IF th = "t1"
                      THEN [text |-> sc.open \o t \o sc.close, gram |-> "inline",
                            context |-> "inline"]
                      ELSE Idle]
    /\ status = [th \in Threads |-> IF th = "t1" THEN "new" ELSE "idle"]

NextInline ==
    \E th \in Threads :
       \/ Generate(th)
       \/ FragLeaf(th)
       \/ FragDrop(th)
       \/ FragMatch(th)
       \/ ProcBuildContent(th)
       \/ ProcStore(th)
       \/ ProcRerun(th)
       \/ ImageBuild(th)
       \/ LinkBuild(th)
       \/ Return(th)

SpecInline == InitInline /\ [][NextInline]_vars

\* ------------------------- two parses of one text that holds a placeholder

\* two calls of generate on the same text, which may hold the pattern of a
\* placeholder; id() gives each node a value no live object has
IdPieces == {PlaceHolder(<< "1" >>), StarStar \o LetterA, LetterA}

InitIds ==
    /\ stk = [th \in Threads |-> << >>]
    /\ stores = << >>
    /\ issued = << >>
    /\ out = [th \in Threads |-> << >>]
    /\ multi \in BOOLEAN
    /\ ModuleDialect
    /\ func = "none"
    /\ \E t \in TextsOf(IdPieces) :
          top = [th \in Threads |-> [text |-> t, gram |-> "simple", context |-> "inline"]]
    /\ status = [th \in Threads |-> "new"]

NextIds ==
    \E th \in Threads :
       \/ Generate(th)
       \/ FragLeaf(th)
       \/ FragDrop(th)
       \/ FragMatch(th)
       \/ ProcBuildContent(th)
       \/ ProcStore(th)
       \/ ProcRerun(th)
       \/ Return(th)

SpecIds == InitIds /\ [][NextIds]_vars

\* ------------------------------------------- the construction of dialects

MaxDialects == 2    \* the dialect instances constructed, the first included

\* The elements a constructor call works on.  The elements bound in the class
\* bodies of Creole and CreolePlus are the same objects for every instance;
\* no_wiki, the link types and the macros are bound in the Base class of the
\* call and are named here by what they were made with.
SimpleOf(add) == IF add THEN "simple_plus" ELSE "simple"
NoWikiOf(mono) == IF mono THEN "no_wiki" ELSE "no_wiki_span"

\* self.inline_elements as Creole.__init__ makes it (br left out), and after
\* CreolePlus.__init__ has put the macros in its first item
InlineOf(add, mono) ==
    << Single(NoWikiOf(mono)), Single("img"), Single("link"), Single("raw_link"),
       Single(SimpleOf(add)) >>
WithMacros(gram, mono) ==
    << Group(<< NoWikiOf(mono), "bodiedmacro", "macro" >>) >> \o Tail(gram)

\* the list objects the __init__ of instance k makes, as they are when it
\* returns: li's list is a copy made from inline_elements before the macros
\* were put in
ListsMade(k, add, mono) ==
    (<< "simple", k >> :> << Single(SimpleOf(add)) >>) @@
    (<< "url_link", k >> :> << Single(SimpleOf(add)) >>) @@
    (<< "inline", k >> :> IF add THEN WithMacros(InlineOf(add, mono), mono)
                          ELSE InlineOf(add, mono)) @@
    (<< "td", k >> :> << Single("raw_link"), Single(SimpleOf(add)) >>) @@
    (<< "th", k >> :> << Single("raw_link"), Single(SimpleOf(add)) >>) @@
    (<< "tr", k >> :> LET row == << Single(NoWikiOf(mono)), Single("img"), Single("link"),
                                   Single("th"), Single("td") >>
                      IN  IF add THEN WithMacros(row, mono) ELSE row) @@
    (<< "table", k >> :> << Single("tr") >>) @@
    (<< "ol", k >> :> << Single("li") >>) @@
    (<< "nested_ol", k >> :> << Single("li") >>) @@
    (<< "li", k >> :> << Group(<< "nested_ol", "nested_ul" >>) >> \o InlineOf(add, mono))

\* the child_tags its assignments leave behind
TagsSet(k, add) ==
    [n \in {"link", SimpleOf(add), "p", "td", "th", "tr", "table", "ol", "ul",
            "nested_ol", "nested_ul", "li"} |->
       CASE n = "link" -> << "url_link", k >>
         [] n = SimpleOf(add) -> << "simple", k >>
         [] n = "p" -> << "inline", k >>
         [] n = "ul" -> << "ol", k >>
         [] n = "nested_ul" -> << "nested_ol", k >>
         [] OTHER -> << n, k >>]

Constructed(add, mono) == [use_additions |-> add, no_wiki_monospace |-> mono]

\* Creole10(use_additions=..., no_wiki_monospace=...): Creole.__init__ and,
\* with the additions, CreolePlus.__init__
Construct ==
    /\ Len(made) < MaxDialects
    /\ \E add, mono \in BOOLEAN :
          /\ made' = Append(made, Constructed(add, mono))
          /\ lists' = ListsMade(Len(made) + 1, add, mono) @@ lists
          /\ child_tags' = TagsSet(Len(made) + 1, add) @@ child_tags
    /\ UNCHANGED << stk, stores, issued, out, status, multi, func, top >>

\* the calls made of a parser built on the first dialect instance, whose block
\* grammar is blank_line and p; the text is the pieces and a final newline, or
\* one piece and a blank line after it.  The elements are those of the
\* elements.py that dialects.py imports, whose _process takes one match
DialectPieces == {MacroM, NoWikiA, << ",", ",", "a", ",", "," >>}

DialectTexts ==
    {t \o Newline : t \in TextsOf(DialectPieces)}
       \cup {t \o Newline \o Newline : t \in DialectPieces}

InitDialect ==
    /\ stk = [th \in Threads |-> << >>]
    /\ stores = << >>
    /\ issued = << >>
    /\ out = [th \in Threads |-> << >>]
    /\ multi = FALSE
    /\ func = "none"
    /\ \E add, mono \in BOOLEAN :
          /\ made = << Constructed(add, mono) >>
          /\ lists = ListsMade(1, add, mono) @@ ModuleLists
          /\ child_tags = TagsSet(1, add) @@ ModuleChildTags
    /\ \E t \in DialectTexts :
          top = [th \in Threads |->
                   IF th = "t1"
                   THEN [text |-> t, gram |-> "paras", context |-> "block"]
                   ELSE Idle]
    /\ status = [th \in Threads |-> IF th = "t1" THEN "new" ELSE "idle"]

NextDialect ==
    \/ Construct
    \/ \E th \in Threads :
          \/ Generate(th)
          \/ FragLeaf(th)
          \/ FragDrop(th)
          \/ FragMatch(th)
          \/ ProcLead(th)
          \/ ProcBuildContent(th)
          \/ ProcTrail(th)
          \/ ProcStore(th)
          \/ ProcRerun(th)
          \/ MacroUnknown(th)
          \/ Return(th)

SpecDialect == InitDialect /\ [][NextDialect]_vars

\* every store operation finds an id that no live object has
PoolSuffices ==
    \A th \in Threads :
       Running(th) /\ Top(th).pc = "store" => IdPool \ LiveIds # {}

\* ----------------------------------------------------------- properties

\* the fragmentize calls in progress: thread and depth
Calls == {c \in Threads \X (1..MaxDepth) : c[2] <= Len(stk[c[1]])}
FrameOf(c) == stk[c[1]][c[2]]

\* the calls that have just chosen the element to process
Choosing ==
    {<< th, Len(stk[th]) >> : th \in {x \in Threads : /\ stk[x] # << >>
                                                        /\ stk[x][Len(stk[x])].pc = "process"
                                                        /\ stk[x][Len(stk[x])].i = 1}}

ItemHasMatch(item, t) == \E n \in Range(item.els) : Found(Search(n, t, 0))

\* C1: fragmentize terminates for every text, grammar and macro callback: no
\* parse recurses until the interpreter's recursion limit stops it.
C1_Terminates == \A th \in Threads : status[th] # "RuntimeError"

\* C2: the item a fragmentize call chooses to process is the first item of the
\* grammar it was called with, in declaration order, that has a match in the
\* text: every item before it has none, wherever the later items' matches start.
C2_FirstItemInOrder ==
    \A c \in Choosing :
       LET f == FrameOf(c)
           k == Len(f.wiki0) - Len(f.gram) + 1
       IN f.el # "" =>
            /\ k \in 1..Len(f.wiki0)
            /\ f.gram = SubSeq(f.wiki0, k, Len(f.wiki0))
            /\ f.el \in Range(f.wiki0[k].els)
            /\ Found(Search(f.el, f.text, 0))
            /\ \A j \in 1..(k - 1) : ~ ItemHasMatch(f.wiki0[j], f.text)

\* an item is being processed while a later item has a match further left
C2_Witness ==
    \E c \in Choosing :
       LET f == FrameOf(c) IN
       /\ f.el # ""
       /\ \E j \in 2..Len(f.gram) : \E n \in Range(f.gram[j].els) :
            /\ Found(Search(n, f.text, 0))
            /\ Search(n, f.text, 0).s < Search(f.el, f.text, 0).s

\* the members of a group whose first match starts at the smallest offset
Closest(els, t) ==
    LET first == [i \in 1..Len(els) |-> Search(els[i], t, 0)] IN
    {j \in 1..Len(els) :
        /\ Found(first[j])
        /\ \A i \in 1..Len(els) : Found(first[i]) => first[j].s <= first[i].s}

\* C3: when the head item is a group, the element chosen is the member whose
\* first match starts at the smallest offset, and among members whose first
\* matches start together, the one declared first.
C3_GroupClosestFirstDeclared ==
    \A c \in Choosing :
       LET f == FrameOf(c) IN
       f.el # "" /\ f.gram[1].grp =>
          LET closest == Closest(f.gram[1].els, f.text) IN
          /\ closest # {}
          /\ f.el = f.gram[1].els[MinOf(closest)]

\* two members of the group start at the same offset and one has been chosen
C3_Witness ==
    \E c \in Choosing :
       LET f == FrameOf(c) IN
       /\ f.el # ""
       /\ f.gram[1].grp
       /\ Cardinality(Closest(f.gram[1].els, f.text)) > 1

\* the text with match k of mos replaced by the placeholder of ids[k], from
\* match k on (end: where the match before it ended)
RECURSIVE Splice(_, _, _, _, _)
Splice(text, mos, ids, k, end) ==
    IF k > Len(mos) THEN Slice(text, end, Len(text))
    ELSE Slice(text, end, mos[k].s) \o PlaceHolder(ids[k])
         \o Splice(text, mos, ids, k + 1, mos[k].e)

\* the calls that wait, in state pc, for the call they made
Waiting(pc) == {c \in Calls : FrameOf(c).pc = pc /\ c[2] < Len(stk[c[1]])}
Callee(c) == stk[c[1]][c[2] + 1]

\* an inline element is re-running: the text of the re-run is the call's text
\* with each of the matches mos replaced by the placeholder of an id of its
\* own that is a key of the store, the last of them the key of the node built
\* last
Respliced(c, mos) ==
    LET f == FrameOf(c) IN
    \E ids \in [1..Len(mos) -> DOMAIN stores[f.st]] :
       /\ \A i, j \in 1..Len(mos) : ids[i] = ids[j] => i = j
       /\ stores[f.st][ids[Len(mos)]] = f.built
       /\ Callee(c).text = Splice(f.text, mos, ids, 1, 0)

InlineReruns == {c \in Waiting("w_rerun") : Elements[FrameOf(c).el].proc = "inline"}

\* the thread stores a node: one key is added to its store, a key the store
\* did not have, and it maps to the node just built
StoresNewId(th) ==
    LET f == Top(th) IN
    \E id \in DOMAIN stores'[f.st] \ DOMAIN stores[f.st] :
       stores' = [stores EXCEPT ![f.st] = (id :> f.built) @@ @]

\* C4 as stated: the node of the matched element is stored under a new id, its
\* span is replaced by <<<id>>>, and fragmentize is re-run on that text with
\* the grammar that was in force when the element matched.
C4_SameGrammar ==
    \A c \in InlineReruns :
       LET f == FrameOf(c) IN
       /\ Respliced(c, << Search(f.el, f.text, 0) >>)
       /\ Callee(c).wiki0 = f.gram

\* C4, amended: every node an inline element builds is stored under a new id.
\* When _process takes one match (elements.py), the span of the first match
\* is replaced by <<<id>>> and the re-run has the same grammar; when it takes
\* the list of matches (trunk), every match of a single element, or the one
\* match of a group's member, is replaced by the placeholder of its own id, and
\* the re-run has the same grammar if the head item is a group and the grammar
\* that follows the element otherwise.
C4_Rerun ==
    /\ [](\A c \in InlineReruns :
            LET f == FrameOf(c) IN
            IF multi /\ ~ f.gram[1].grp
            THEN /\ Respliced(c, FindIter(f.el, f.text, 0))
                 /\ Callee(c).wiki0 = Tail(f.gram)
            ELSE /\ Respliced(c, << Search(f.el, f.text, 0) >>)
                 /\ Callee(c).wiki0 = f.gram)
    /\ [][\A th \in Threads :
            Running(th) /\ Top(th).pc = "store" /\ stk'[th] # stk[th] => StoresNewId(th)]_vars

\* an inline element has stored its node and its re-run has begun
C4_Witness ==
    \E c \in InlineReruns :
       /\ Callee(c).pc = "loop"
       /\ DOMAIN stores[FrameOf(c).st] # {}

IsBlock(f) == f.el # "" /\ Elements[f.el].proc = "block"

\* what a block element adds for one match: its node, if it builds one, then a
\* newline if it declares append_newline
NodeAndNewline(f) ==
    (IF Elements[f.el].cls = "BlankLine" THEN << >> ELSE << El(Elements[f.el].tag, << >>) >>)
    \o (IF Elements[f.el].nl THEN << Txt(Newline) >> ELSE << >>)

EndsWith(q, tail) ==
    Len(tail) <= Len(q) /\ SubSeq(q, Len(q) - Len(tail) + 1, Len(q)) = tail

\* a call returns to the block element that made it: what it returns is put
\* at the end of the element's fragments, and after the trailing text nothing
\* more is added
ReturnsInOrder(th) ==
    LET n == Len(stk[th])
        g == stk[th][n]
        f == stk[th][n - 1]
        f2 == stk'[th][n - 1]
    IN IsBlock(f) /\ f.pc \in {"w_lead", "w_trail"} =>
          /\ f2.frags = f.frags \o g.frags
          /\ f.pc = "w_trail" => f2.pc = "ret"
          /\ f.pc = "w_lead" => f2.pc = "build"

\* a block element has built for match i: the node and the newline are put at
\* the end of its fragments
BuildsInOrder(th) ==
    LET n == Len(stk[th])
        f == stk[th][n]
        f2 == stk'[th][n]
    IN IsBlock(f) /\ f.pc \in {"process", "build"} /\ f2.pc \in {"process", "trail"} =>
          f2.frags = f.frags \o NodeAndNewline(f)

\* the parts of a block element's result are put together in the order of the
\* steps: the leading text's fragments, the node, the newline, the trailing
\* text's fragments
BlockOrder ==
    \A th \in Threads :
       /\ Len(stk[th]) >= 2 /\ Len(stk'[th]) = Len(stk[th]) - 1 => ReturnsInOrder(th)
       /\ Running(th) /\ Len(stk'[th]) = Len(stk[th]) => BuildsInOrder(th)

\* the calls a block element makes for the text before a match: the text
\* since the match before it (or the start), the grammar that follows the element
LeadCalls ==
    \A c \in Waiting("w_lead") :
       LET f == FrameOf(c) IN
       /\ IsBlock(f)
       /\ Callee(c).text = Slice(f.text, IF f.i = 1 THEN 0 ELSE f.mos[f.i - 1].e, f.mos[f.i].s)
       /\ Callee(c).wiki0 = Tail(f.gram)
       /\ f.i = 1 => f.frags = << >>

BlockTrails == {c \in Waiting("w_trail") : IsBlock(FrameOf(c))}

\* C5 as stated: for a block element E matched at [s, e) the result is the
\* fragments of text[0:s) parsed with the grammar after E, E's node (if any),
\* a newline (if E declares it), then the fragments of text[e:] parsed with
\* the full grammar that was in force, E included.
C5_FullGrammarAfter ==
    /\ LeadCalls
    /\ \A c \in BlockTrails :
         LET f == FrameOf(c)
             mo == Search(f.el, f.text, 0)
         IN /\ Callee(c).text = Slice(f.text, mo.e, Len(f.text))
            /\ Callee(c).wiki0 = f.gram
            /\ EndsWith(f.frags, NodeAndNewline(f))


\* C5, amended: when _process takes one match (elements.py) the result is as
\* stated.  When it takes the list of matches (trunk), the result has, for
\* every match of E in turn, the fragments of the text since the match before
\* it parsed with the grammar after E, E's node (if any) and a newline (if
\* declared), and then the fragments of the text after the last match, parsed
\* with the grammar in force if the head item is a group and with the grammar
\* after E otherwise.
C5_BlockResult ==
    /\ [](/\ LeadCalls
          /\ \A c \in BlockTrails :
               LET f == FrameOf(c)
                   all == multi /\ ~ f.gram[1].grp
                   mos == IF all THEN FindIter(f.el, f.text, 0)
                          ELSE << Search(f.el, f.text, 0) >>
               IN /\ f.mos = mos
                  /\ Callee(c).text = Slice(f.text, mos[Len(mos)].e, Len(f.text))
                  /\ Callee(c).wiki0 = IF all THEN Tail(f.gram) ELSE f.gram
                  /\ EndsWith(f.frags, NodeAndNewline(f)))
    /\ [][BlockOrder]_vars

\* a block element with text before it, a node and a newline is waiting for
\* the fragments of the text after it
C5_Witness ==
    \E c \in BlockTrails :
       LET f == FrameOf(c) IN
       /\ f.mos[1].s > 0
       /\ Elements[f.el].nl
       /\ Len(f.frags) > 2

\* the placeholders of t, from offset pos on, left to right
RECURSIVE PlaceHolders(_, _)
PlaceHolders(t, pos) ==
    LET mo == place_holder_search(t, pos) IN
    IF Found(mo) THEN << mo >> \o PlaceHolders(t, mo.e) ELSE << >>

\* t split at its placeholders: each non-empty run of text, and for each
\* placeholder the node the store has for its id or, if it has none, the
\* placeholder itself
SplitAtPlaceHolders(t, store) ==
    LET phs == PlaceHolders(t, 0)
        n == Len(phs)
        Run(a, b) == IF a < b THEN << Txt(Slice(t, a, b)) >> ELSE << >>
        Item(k) == LET id == Slice(t, phs[k].cs, phs[k].ce) IN
                   IF id \in DOMAIN store THEN store[id]
                   ELSE Txt(<< "<", "<", "<" >> \o id \o << ">", ">", ">" >>)
    IN IF n = 0 THEN << Txt(t) >>
       ELSE Flatten([k \in 1..n |->
                       Run(IF k = 1 THEN 0 ELSE phs[k - 1].e, phs[k].s) \o << Item(k) >>])
            \o Run(phs[n].e, Len(t))

\* the calls that found their grammar empty and have their result
Leaves == {c \in Calls : FrameOf(c).pc = "ret" /\ FrameOf(c).el = ""}

SoloResult(t) ==
    IF t = StarStar \o LetterA
    THEN << El("strong", << Txt(LetterA) >>) >>
    ELSE << El("em", << Txt(LetterA), El("strong", << Txt(LetterA) >>) >>) >>

\* C7: every generate call given no store works on a store of its own: the
\* calls of one parse have one store, the calls of two parses have two, and a
\* parse's store holds, id for id, the nodes that parse has stored, whatever
\* parse started in between on another thread or from a macro callback; so the
\* parses that run together return what each returns alone.
C7_OwnStore ==
    /\ \A c \in Calls : stores[FrameOf(c).st] = issued[FrameOf(c).gen]
    /\ \A c, d \in Calls : (FrameOf(c).gen = FrameOf(d).gen) <=> (FrameOf(c).st = FrameOf(d).st)
    /\ \A th \in Threads :
         status[th] = "done" /\ top[th].text \in ConcTexts /\ top[th].gram = "simple"
            => out[th] = SoloResult(top[th].text)

\* two parses are in progress, on two threads or one inside a callback of the
\* other, and each but the innermost has placeholders in its store
C7_Witness ==
    \E c, d \in Calls :
       /\ FrameOf(c).gen < FrameOf(d).gen
       /\ FrameOf(d).pc = "loop"
       /\ DOMAIN stores[FrameOf(c).st] # {}
       /\ \/ c[1] # d[1] /\ DOMAIN stores[FrameOf(d).st] # {}
          \/ c[1] = d[1]

\* the token at offset s is escaped: the character before it is the escape
\* character, and that one is not escaped itself
RECURSIVE Escaped(_, _)
Escaped(t, s) == s > 0 /\ t[s] = escape_char /\ ~ Escaped(t, s - 1)

\* the offsets where one of the tokens stands, with text after it, unescaped
Unescaped(t, toks) ==
    {s \in 0..(Len(t) - 1) :
        \E k \in 1..Len(toks) :
           StartsAt(t, s, toks[k]) /\ s + Len(toks[k]) < Len(t) /\ ~ Escaped(t, s)}

\* C8: a token is escaped if and only if the character before it is an escape
\* character that is not escaped itself: the first token with text after it
\* that is not escaped in this sense, be it after ~~, is where the element's
\* first match starts, and if there is none the element has no match.
C8_EscapedIff ==
    \A c \in Calls :
       LET f == FrameOf(c)
           n == f.gram[1].els[1]
           starts == Unescaped(f.text, Elements[n].toks)
       IN f.gram # << >> /\ ~ f.gram[1].grp /\ Elements[n].cls = "SimpleElement" =>
             IF starts = {} THEN ~ Found(Search(n, f.text, 0))
             ELSE Search(n, f.text, 0).s = MinOf(starts)

\* the characters of t from index i on, without those at the indices in D
RECURSIVE Without(_, _, _)
Without(t, D, i) ==
    IF i > Len(t) THEN << >>
    ELSE (IF i \in D THEN << >> ELSE << t[i] >>) \o Without(t, D, i + 1)

\* the escape characters that have no escape character right before them and
\* have a character after them that is not in ws
Removable(t, ws) ==
    {i \in 1..Len(t) :
        /\ t[i] = escape_char
        /\ i = 1 \/ t[i - 1] # escape_char
        /\ i < Len(t) /\ t[i + 1] \notin ws}

EscLeaves == {c \in Leaves : FrameOf(c).esc}

\* C9 as stated: the leaf deletes exactly the escape characters that have no
\* escape character right before them and are followed by neither whitespace
\* nor the end of the text, and keeps every other character in order.
C9_NotBeforeWhitespace ==
    \A c \in EscLeaves :
       LET f == FrameOf(c) IN
       f.frags = SplitAtPlaceHolders(
                    Without(f.text, Removable(f.text, {" ", "\n", "\t", "\r"}), 1),
                    stores[f.st])

\* C9, amended: the leaf deletes exactly the escape characters that have no
\* escape character right before them and are followed by neither a space, a
\* newline nor the end of the text (one followed by a tab or another
\* whitespace character is deleted), and keeps every other character in order.
C9_NotBeforeSpaceOrNewline ==
    \A c \in EscLeaves :
       LET f == FrameOf(c) IN
       f.frags = SplitAtPlaceHolders(Without(f.text, Removable(f.text, {" ", "\n"}), 1),
                                     stores[f.st])

\* a leaf's text is ~~ and a space: the leaf has deleted the first escape
\* character and kept the second, which has one before it and a space after it
C9_Witness ==
    \E c \in EscLeaves :
       LET f == FrameOf(c) IN
       /\ f.text = << "~", "~", " " >>
       /\ f.frags = << Txt(<< "~", " " >>) >>

\* the tokens of strong and em
EmphasisTokens == {StarStar, SlashSlash}

\* every occurrence of a token in t has an escape character right before it
TokensEscaped(t) ==
    \A tok \in EmphasisTokens : \A s \in 0..(Len(t) - 1) :
       StartsAt(t, s, tok) => s > 0 /\ t[s] = escape_char

\* the escape characters of t that stand right before a token
BeforeToken(t) ==
    {i \in 1..Len(t) : t[i] = escape_char /\ \E tok \in EmphasisTokens : StartsAt(t, i, tok)}

RECURSIVE NodesOf(_)
NodesOf(frags) ==
    IF frags = << >> THEN {}
    ELSE {frags[1]} \cup NodesOf(frags[1].kids) \cup NodesOf(Tail(frags))

\* the text of a list of fragments, the text inside its elements included
RECURSIVE TextOf(_)
TextOf(frags) ==
    IF frags = << >> THEN << >>
    ELSE frags[1].s \o TextOf(frags[1].kids) \o TextOf(Tail(frags))

\* the offsets of t where token tok stands with no escape character before it
TokenAt(t, tok) == {s \in 0..(Len(t) - 1) : StartsAt(t, s, tok) /\ (s = 0 \/ t[s] # escape_char)}

\* the opening tokens of t (one of toks, followed by at least one character)
OpenAt(t, toks, s) == {i \in 1..Len(toks) : s \in TokenAt(t, toks[i]) /\ s + Len(toks[i]) < Len(t)}
Openers(t, toks) == {s \in 0..(Len(t) - 1) : OpenAt(t, toks, s) # {}}

\* the first opening token of t has no closing token after it
Unclosed(t, toks) ==
    /\ Openers(t, toks) # {}
    /\ LET s == MinOf(Openers(t, toks))
           tok == toks[MinOf(OpenAt(t, toks, s))]
       IN  \A k \in TokenAt(t, tok) : k <= s + Len(tok)

\* the end of the text, not counting a final newline that comes after offset c + 1
TextEnd(t, c) == IF t[Len(t)] = "\n" /\ Len(t) - 1 > c THEN Len(t) - 1 ELSE Len(t)

OneToken(n) == Elements[n].cls \in {"InlineElement", "SimpleElement"}
NoMacroGrammars == {"simple", "ordered", "grp1", "grp2", "block", "blockgrp", "nowiki", "none"}
Count(t, ch) == Cardinality({k \in 1..Len(t) : t[k] = ch})
Errors == {"RuntimeError", "TypeError"}

C13_FailsOnlyOnBadReturn ==
    \A th \in Threads : status[th] \in Errors => func = "bad"

\* the calls of Macro._process that wait for the re-run of fragmentize
MacroReruns == {c \in Waiting("w_rerun") : Elements[FrameOf(c).el].proc = "macro"}

\* the string the macro_func named fn returns for the macro matched in frame f
MacroValue(fn, f) == IF fn = "str" THEN StarStar \o MacroArg(f) \o StarStar ELSE MacroSource(f)

\* C15: a string the macro callback returns replaces the macro's markup in the
\* text, and the new text is parsed with the grammar in force; an element the
\* callback returns (or the unknown_macro element) goes to the store, its
\* placeholder replaces the markup, and the element is in the output as it
\* was returned, its content not parsed.
C15_StringReparsed ==
    /\ \A c \in MacroReruns :
          LET f == FrameOf(c)
              g == Callee(c)
              before == Slice(f.text, 0, f.mos[1].s)
              after == Slice(f.text, f.mos[1].e, Len(f.text))
          IN  /\ g.wiki0 = f.gram
              /\ g.st = f.st
              /\ func \in {"str", "echo"} => g.text = before \o MacroValue(func, f) \o after
              /\ func \in {"none", "node", "gen"} =>
                    \E id \in DOMAIN stores[f.st] :
                       /\ g.text = before \o PlaceHolder(id) \o after
                       /\ stores[f.st][id] = f.built
    /\ \A th \in Threads :
          status[th] = "done" /\ top[th].gram = "macro" =>
             /\ func \in {"str", "echo"} =>
                   \A n \in NodesOf(out[th]) : n.tag # "code" /\ n.tag # "span"
             /\ func \in {"none", "node"} =>
                   \A id \in DOMAIN issued[1] : issued[1][id] \in NodesOf(out[th])

\* <<m**a>> has been parsed with a callback that returns '**' + arg_string + '**'
\* and the markup of the string is in the output as elements
C15_Witness ==
    /\ status["t1"] = "done"
    /\ top["t1"].gram = "macro"
    /\ top["t1"].text = << "<", "<", "m" >> \o StarStar \o LetterA \o << ">", ">" >>
    /\ func = "str"
    /\ out["t1"] = << El("strong", << El("strong", << Txt(LetterA) >>) >>) >>

\* ------------------------------------------------------ nested macros

\* the calls of _process that have built a macro with a body
Bodied == {c \in Calls : /\ c[2] = Len(stk[c[1]])
                         /\ FrameOf(c).pc \in {"rerun", "trail"}
                         /\ Elements[FrameOf(c).el].proc \in {"bodied", "bodiedblock"}}

\* an opening (closing) tag of the macro called name stands at offset p of t:
\* for an inline macro with no escape character before it, for a block macro
\* at the start of a line and with the end of the line after it
TagOpens(t, cls, name, p) ==
    IF cls = "BodiedMacro"
    THEN (p = 0 \/ t[p] # escape_char) /\ StartsAt(t, p, << "<", "<" >> \o name \o << ">", ">" >>)
    ELSE (p = 0 \/ t[p] = "\n") /\ StartsAt(t, p, << "<", "<" >> \o name \o << ">", ">", "\n" >>)

TagCloses(t, cls, name, p) ==
    IF cls = "BodiedMacro"
    THEN (p = 0 \/ t[p] # escape_char)
         /\ StartsAt(t, p, << "<", "<", "/" >> \o name \o << ">", ">" >>)
    ELSE (p = 0 \/ t[p] = "\n")
         /\ StartsAt(t, p, << "<", "<", "/" >> \o name \o << ">", ">", "\n" >>)

\* the closing tags of t[from:to] at which the closing tags so far outnumber
\* the opening tags so far
Balancing(t, cls, name, from, to) ==
    {c \in from..to :
        /\ TagCloses(t, cls, name, c)
        /\ Cardinality({q \in from..c : TagCloses(t, cls, name, q)})
              > Cardinality({q \in from..c : TagOpens(t, cls, name, q)})}

\* where the body of the macro matched in frame f ends by the rule of
\* balance: the first balancing closing tag, the last closing tag when none balances
BalancedEnd(f) ==
    LET mo == f.mos[1]
        b == Balancing(f.text, Elements[f.el].cls, BodiedName(f), mo.cs, mo.ce)
    IN  IF b = {} THEN mo.ce ELSE MinOf(b)

\* the length of a closing tag: '<</' name '>>', and the newline for a block macro
CloseLen(f) == Len(BodiedName(f)) + 5 + (IF Elements[f.el].cls = "BodiedMacro" THEN 0 ELSE 1)

UnknownBuilt ==
    {c \in Calls :
        /\ c[2] = Len(stk[c[1]])
        /\ \/ /\ FrameOf(c).pc = "store"
              /\ Elements[FrameOf(c).el].proc = "macro" /\ func \in {"none", "body"}
           \/ /\ FrameOf(c).pc = "store"
              /\ Elements[FrameOf(c).el].proc = "bodied" /\ func = "none"
           \/ /\ FrameOf(c).pc = "trail"
              /\ Elements[FrameOf(c).el].proc = "bodiedblock" /\ func = "none"}

\* the element built
UnknownNode(f) == IF f.pc = "store" THEN f.built ELSE f.frags[Len(f.frags)]

\* the markup of the macro in the text: from its opening tag to its closing tag
MarkupOf(f) ==
    LET mo == f.mos[1] IN
    IF Elements[f.el].proc = "macro" THEN Slice(f.text, mo.s, mo.e)
    ELSE Slice(f.text, mo.s, BalancedEnd(f) + Len(BodiedName(f)) + 5)

\* the text of a list of fragments with a newline for every br element
RECURSIVE Render(_)
Render(frags) ==
    IF frags = << >> THEN << >>
    ELSE (IF frags[1].tag = "br" THEN << "\n" >> ELSE frags[1].s \o Render(frags[1].kids))
         \o Render(Tail(frags))

\* the markup without the newline that ends the body of an inline macro
MarkupShown(f) ==
    LET e == BalancedEnd(f) IN
    IF Elements[f.el].proc = "bodied" /\ e > f.mos[1].cs /\ f.text[e] = "\n"
    THEN Slice(f.text, f.mos[1].s, e - 1) \o Slice(f.text, e, e + Len(BodiedName(f)) + 5)
    ELSE MarkupOf(f)

UnknownTag(f) == IF Elements[f.el].proc = "bodiedblock" THEN "pre" ELSE "code"

AttrNames == {"href", "src", "alt", "title", "class"}
HasAttr(n, name) == \E k \in 1..Len(n.attr) : n.attr[k] = name

\* the value of attribute name of node n
AttrValue(n, name) ==
    LET k == MinOf({j \in 1..Len(n.attr) : n.attr[j] = name})
        nx == {j \in (k + 1)..Len(n.attr) : n.attr[j] \in AttrNames}
    IN  Slice(n.attr, k, IF nx = {} THEN Len(n.attr) ELSE MinOf(nx) - 1)

\* the calls of _process that have built the node of the element of class cls
Built(cls) ==
    {c \in Calls : /\ c[2] = Len(stk[c[1]])
                   /\ FrameOf(c).pc = "store"
                   /\ Elements[FrameOf(c).el].cls = cls}

\* the part of the text the match the node was built for has taken
Markup(f) == Slice(f.text, f.mos[f.i].s, f.mos[f.i].e)

\* C16: no node built by URLLink, Image or RawLink has an href or src that
\* is_safe_uri rejects, in the node as built and in the output of the parse,
\* and no parse of a text with links or images ends with an exception.
C16_NoUnsafeUri ==
    /\ \A th \in Threads : status[th] \notin Errors
    /\ \A c \in Built("RawLink") :
          FrameOf(c).built.k = "el" => is_safe_uri(AttrValue(FrameOf(c).built, "href"))
    /\ \A c \in Built("Image") :
          FrameOf(c).built.tag = "img" => is_safe_uri(AttrValue(FrameOf(c).built, "src"))
    /\ \A c \in Built("Link") :
          LET f == FrameOf(c) IN
          URLLinkSearch(Content(f)).found /\ f.built.k = "el" =>
             \A n \in NodesOf(<< f.built >>) :
                n.tag = "a" /\ AttrValue(n, "href") = URLLinkSearch(Content(f)).target
                => is_safe_uri(AttrValue(n, "href"))
    /\ \A th \in Threads :
          status[th] = "done" /\ top[th].gram = "links" =>
             \A n \in NodesOf(out[th]) :
                /\ HasAttr(n, "href") => is_safe_uri(AttrValue(n, "href"))
                /\ HasAttr(n, "src") => is_safe_uri(AttrValue(n, "src"))

\* {{w:a}} has been parsed: the scheme w is not a safe one, and the img element
\* has the sentinel for its src
C16_Witness ==
    /\ status["t1"] = "done"
    /\ top["t1"].text = << "{", "{", "w", ":", "a", "}", "}" >>
    /\ ~ is_safe_uri(<< "w", ":", "a" >>)
    /\ out["t1"] = << ElA("img", << >>, ImageAttr(unsafe_uri_detected, unsafe_uri_detected)) >>

Hrefs(n) == {AttrValue(x, "href") : x \in {y \in NodesOf(<< n >>) : HasAttr(y, "href")}}

IsLinkTo(f, href) ==
    /\ f.built.k = "el" /\ f.built.tag = "" /\ Len(f.built.kids) = 1
    /\ f.built.kids[1].tag = "a"
    /\ f.built.kids[1].attr = HrefAttr(href)

\* f has built text and no element
IsLiteral(f, text) == Hrefs(f.built) = {} /\ TextOf(<< f.built >>) = text

\* C18 as stated: the first link type, in the order URL, interwiki, wiki page,
\* whose pattern matches decides the link, and the types after it are not
\* consulted: when the URL pattern matches no interwiki or wiki link is built,
\* and when the interwiki pattern matches no wiki link is.
C18_FirstMatchDecides ==
    \A c \in Built("Link") :
       LET f == FrameOf(c)
           u == URLLinkSearch(Content(f))
           i == InterWikiSearch(Content(f))
           w == WikiLinkSearch(Content(f))
       IN  /\ u.found => IsLinkTo(f, u.target) \/ IsLinkTo(f, unsafe_uri_detected)
                         \/ IsLiteral(f, Markup(f))
           /\ ~ u.found /\ i.found => IsLinkTo(f, InterWikiHref(i)) \/ IsLiteral(f, Markup(f))
           /\ ~ u.found /\ ~ i.found /\ w.found => IsLinkTo(f, WikiLinkHref(w))
           /\ ~ u.found /\ ~ i.found /\ ~ w.found => IsLiteral(f, Markup(f))

\* C18, amended: the link is decided by the first link type, in the order URL,
\* interwiki, wiki page, whose pattern matches and that builds something.  The
\* URL type builds nothing for a target is_safe_uri rejects, and the types
\* after it are tried.  The interwiki type builds the text [[ + its match + ]]
\* for a wiki that is not known, and the wiki page type is not tried.  When no
\* type has built anything the whole markup is the text.
C18_FirstBuiltDecides ==
    \A c \in Built("Link") :
       LET f == FrameOf(c)
           u == URLLinkSearch(Content(f))
           i == InterWikiSearch(Content(f))
           w == WikiLinkSearch(Content(f))
       IN  IF u.found /\ is_safe_uri(u.target) THEN IsLinkTo(f, u.target)
           ELSE IF i.found /\ i.wiki \in KnownWikis
                THEN IsLinkTo(f, UrlJoin(Quote(PageName(i.target, "_"))))
           ELSE IF i.found
                THEN IsLiteral(f, << "[", "[" >> \o Slice(Content(f), 0, i.e) \o << "]", "]" >>)
           ELSE IF w.found THEN IsLinkTo(f, Quote(PageName(w.target, "_")))
           ELSE IsLiteral(f, Markup(f))

\* [[w:a]] has been parsed: the URL pattern matches w:a, which is not safe, and
\* the interwiki type has built the link, before the wiki page type
C18_Witness ==
    /\ status["t1"] = "done"
    /\ top["t1"].text = << "[", "[", "w", ":", "a", "]", "]" >>
    /\ URLLinkSearch(<< "w", ":", "a" >>).found
    /\ WikiLinkSearch(<< "w", ":", "a" >>).found
    /\ out["t1"] = << El("", << ElA("a", << Txt(<< "w", ":", "a" >>) >>,
                                    HrefAttr(<< "h", "t", "t", "p", ":", "/", "/", "w", "/", "a" >>)) >>) >>

\* ------------------------------------------------------------- raw links

\* C19: a bare http or https URL is built as a link unless the character right
\* before it is an escape character that is not itself escaped; then the URL
\* is built as text (without the escape character, which the match has taken).
C19_LinkUnlessEscaped ==
    \A c \in Built("RawLink") :
       LET f == FrameOf(c)
           mo == f.mos[f.i]
       IN  RawLinkProtocol(Content(f)) \in linking_protocols =>
              IF Escaped(f.text, mo.cs)
              THEN f.built = Txt(Content(f)) /\ mo.s = mo.cs - 1
              ELSE f.built = ElA("a", << Txt(Content(f)) >>, HrefAttr(Content(f)))

\* ------------------------------------------------------ headings, checked

HeadingTags == Elements["headings"].tags

\* the number of token characters the line that starts at offset s starts with
LineRun(t, s) == RunLen(t, BlankRunEnd(t, s), "=")

RECURSIVE DropLeadBlanks(_)
DropLeadBlanks(s) == IF s # << >> /\ IsBlankTab(s[1]) THEN DropLeadBlanks(Tail(s)) ELSE s
RECURSIVE DropBlanks(_)
DropBlanks(s) ==
    IF s # << >> /\ IsBlankTab(s[Len(s)]) THEN DropBlanks(Slice(s, 0, Len(s) - 1)) ELSE s
RECURSIVE DropTokens(_)
DropTokens(s) ==
    IF s # << >> /\ s[Len(s)] = "=" THEN DropTokens(Slice(s, 0, Len(s) - 1)) ELSE s

\* the line that starts at offset s without its leading run of tokens, without
\* the run of tokens at its end and without the blanks around both
LineContent(t, s) ==
    LET body == Slice(t, BlankRunEnd(t, s) + LineRun(t, s), LineEnd(t, s))
    IN  DropBlanks(DropTokens(DropBlanks(DropLeadBlanks(body))))

\* no line of t starts with more tokens than there are heading tags
ShortRuns(t) ==
    \A s \in 0..(Len(t) - 1) : LineStart(t, s) => LineRun(t, s) <= Len(HeadingTags)

\* the n-th tag for every line, from offset s on, that starts with n tokens
RECURSIVE LineTags(_, _)
LineTags(t, s) ==
    IF s >= Len(t) THEN << >>
    ELSE (IF LineRun(t, s) >= 1 THEN << HeadingTags[LineRun(t, s)] >> ELSE << >>)
         \o LineTags(t, LineEnd(t, s) + 1)

\* the tags of the headings among a list of fragments
RECURSIVE HeadingsOf(_)
HeadingsOf(frags) ==
    IF frags = << >> THEN << >>
    ELSE (IF frags[1].k = "el" /\ \E i \in 1..Len(HeadingTags) : frags[1].tag = HeadingTags[i]
          THEN << frags[1].tag >> ELSE << >>)
         \o HeadingsOf(Tail(frags))

HeadingGrammars == {"headings", "trunk_headings"}

\* C20: a line that starts with a run of n tokens, 1 <= n <= 6, is rendered with
\* the n-th heading tag: the index of the tag a heading is built with is always
\* within the tag list, the node built for such a line has the n-th tag and its
\* content is the line without the leading run, without the run of tokens at
\* its end and without the blanks around them (tokens inside are kept), and the
\* output of the parse holds one heading, with the n-th tag, for every such line.
C20_HeadingRendered ==
    /\ \A c \in Built("Heading") \cup Built("TrunkHeading") :
          LET f == FrameOf(c)
              mo == f.mos[f.i]
              n == LineRun(f.text, mo.s)
          IN  /\ mo.key \in 1..Len(HeadingTags)
              /\ n <= Len(HeadingTags) =>
                    /\ f.built = El(HeadingTags[n], f.built.kids)
                    /\ Slice(f.text, mo.cs, mo.ce) = LineContent(f.text, mo.s)
    /\ \A th \in Threads :
          /\ status[th] = "done"
          /\ top[th].gram \in HeadingGrammars
          /\ ShortRuns(top[th].text)
          => HeadingsOf(out[th]) = LineTags(top[th].text, 0)

\* ------------------------------------------------ the grammar during a parse

\* C26: a parse never mutates the grammar.  In every state of a parse the list
\* objects of the dialect hold what they held before the call and every
\* element's child_tags is the list it was; a call that still works on a list
\* object of the dialect sees it whole, and a call that has dropped the head of
\* its grammar works on a list of its own.
C26_GrammarNotMutated ==
    /\ lists = ModuleLists
    /\ child_tags = ModuleChildTags
    /\ \A c \in Calls :
          LET f == FrameOf(c) IN
          /\ f.ref # NoRef => f.gram = ModuleLists[f.ref] /\ f.wiki0 = f.gram
          /\ c[2] = 1 => f.wiki0 = Grammars[top[c[1]].gram]
          /\ \E k \in 0..Len(f.wiki0) : f.gram = SubSeq(f.wiki0, k + 1, Len(f.wiki0))

\* a top-level call has dropped the head of the dialect's list, and an element's
\* content is being parsed with its child_tags
C26_Witness ==
    \E c \in Calls :
       /\ c[2] = 1
       /\ FrameOf(c).ref = NoRef
       /\ Len(FrameOf(c).gram) < Len(lists[ModuleList(top[c[1]].gram)])
       /\ \E d \in Calls : d[1] = c[1] /\ d[2] > 1 /\ FrameOf(d).ref \in DOMAIN lists

\* ------------------------------------------------- preformatted blocks, checked

\* the calls whose element of class cls has had its content parsed: the call
\* made by _build is about to return
Building(cls) ==
    {c \in Waiting("w_build") : /\ Elements[FrameOf(c).el].cls = cls
                                /\ c[2] + 1 = Len(stk[c[1]])
                                /\ Callee(c).pc = "ret"}

\* the lines of c made of one space, blanks, the closing token, blanks and the
\* line end: the places (from 1) of their first space
EscapedCloses(c, tok1) ==
    {s + 1 : s \in {x \in 0..(Len(c) - 1) :
                      /\ LineStart(c, x)
                      /\ c[x + 1] = " "
                      /\ \E w \in (x + 1)..BlankRunEnd(c, x + 1) :
                            /\ StartsAt(c, w, tok1)
                            /\ BlankRunEnd(c, w + Len(tok1)) < Len(c)
                            /\ c[BlankRunEnd(c, w + Len(tok1)) + 1] = "\n"}}

\* C23: the content of a preformatted block is emitted as one text, with no
\* markup interpreted and its escape characters kept, except that every line
\* made of a leading space and the closing token has lost exactly that space.
C23_PreVerbatim ==
    \A c \in Building("PreBlock") :
       LET f == FrameOf(c)
           content == Slice(f.text, f.mos[f.i].cs, f.mos[f.i].ce)
       IN  BuildNode(f, Callee(c).frags)
             = El("pre", << Txt(Without(content, EscapedCloses(content, Elements[f.el].toks[2]), 1)) >>)

\* ------------------------------------------------------ remove_escapes=False

\* the calls _process has made for the text before, after or around a match
ProcessCalls == Waiting("w_lead") \cup Waiting("w_trail") \cup Waiting("w_rerun")

\* the calls that were made with remove_escapes=False
Verbatim == {c \in Calls : ~ FrameOf(c).esc}

RECURSIVE LinesFrom(_, _)
LinesFrom(t, s) ==
    IF s >= Len(t) THEN << >>
    ELSE << Slice(t, s, LineEnd(t, s)) >> \o LinesFrom(t, LineEnd(t, s) + 1)

\* a line without the blanks at its two ends
Trim(l) == DropBlanks(DropLeadBlanks(l))

\* the line starts with the row token (blanks before it do not count, as in
\* the indented tables of test_table)
IsRowLine(l) == Trim(l) # << >> /\ Trim(l)[1] = "|"

\* the places of a line where a cell token stands unescaped, and escaped
CellTokens(l) == {i \in 1..Len(l) : l[i] = "|" /\ (i = 1 \/ l[i - 1] # escape_char)}
EscapedTokens(l) == {i \in 2..Len(l) : l[i] = "|" /\ l[i - 1] = escape_char}

\* what the claim says of a row line: the number of its cells (one for each
\* unescaped token that is not at the end of the line) and the number of
\* tokens in the text of its cells (the escaped ones)
RowShape(l) ==
    << Cardinality({i \in CellTokens(l) : i # Len(l)}), Cardinality(EscapedTokens(l)) >>

\* the maximal runs of row lines, each as the shapes of its lines
LastRun(run) == IF run = << >> THEN << >> ELSE << run >>
RECURSIVE RunsOf(_, _)
RunsOf(lines, run) ==
    IF lines = << >> THEN LastRun(run)
    ELSE IF IsRowLine(lines[1])
         THEN RunsOf(Tail(lines), Append(run, RowShape(Trim(lines[1]))))
         ELSE LastRun(run) \o RunsOf(Tail(lines), << >>)

\* the elements among frags that have one of the tags
TaggedOf(frags, tags) == SelectSeq(frags, LAMBDA n : n.k = "el" /\ n.tag \in tags)

\* a built row: the number of its cells and of the tokens in their text
RowBuilt(tr) == << Len(TaggedOf(tr.kids, {"td", "th"})), Count(TextOf(tr.kids), "|") >>
RowsBuilt(rows) == [i \in 1..Len(rows) |-> RowBuilt(rows[i])]
TableBuilt(tb) == RowsBuilt(TaggedOf(tb.kids, {"tr"}))
TablesBuilt(tbs) == [i \in 1..Len(tbs) |-> TableBuilt(tbs[i])]

\* C21: every maximal run of consecutive lines that start with the row token
\* becomes one table with one row per line; each row has one cell per unescaped
\* cell token of its line, a token at the end of the line opening none, and
\* every escaped token is in the text of the cells.
C21_TableShape ==
    \A th \in Threads :
       status[th] = "done" /\ top[th].gram = "tables"
       => TablesBuilt(TaggedOf(out[th], {"table"}))
             = RunsOf(LinesFrom(top[th].text, 0), << >>)

\* the row lines on which the claim and TableRow differ: a line that is the
\* row token alone, and a line that ends with an escaped token
OnlyToken(l) == Trim(l) = Bar
EndsEscaped(l) == Len(Trim(l)) \in EscapedTokens(Trim(l))

\* on every text without such lines the tables are as the claim says
C21_ShapeElsewhere ==
    \A th \in Threads :
       /\ status[th] = "done" /\ top[th].gram = "tables"
       /\ \A i \in 1..Len(LinesFrom(top[th].text, 0)) :
             ~ OnlyToken(LinesFrom(top[th].text, 0)[i])
             /\ ~ EndsEscaped(LinesFrom(top[th].text, 0)[i])
       => TablesBuilt(TaggedOf(out[th], {"table"}))
             = RunsOf(LinesFrom(top[th].text, 0), << >>)

\* ------------------------------------------------------------------ C22

ListMarks == {"*", "#"}

\* the marker run of the line that starts at offset s: its character and its
\* length (no marker: length 0)
MarkerAt(t, s) ==
    IF BlankRunEnd(t, s) < Len(t) /\ t[BlankRunEnd(t, s) + 1] \in ListMarks
    THEN << t[BlankRunEnd(t, s) + 1], RunLen(t, BlankRunEnd(t, s), t[BlankRunEnd(t, s) + 1]) >>
    ELSE << "", 0 >>

\* the starts of the lines after the one that starts at offset s, up to offset e
LaterLines(t, s, e) == {x \in (s + 1)..(e - 1) : t[x] = "\n"}

\* where the item whose marker line starts at offset s ends: at the next line
\* whose marker run equals its own, else at the end of the text
NextSame(t, s) ==
    MinOf({x \in LaterLines(t, s, Len(t)) : MarkerAt(t, x) = MarkerAt(t, s)} \cup {Len(t)})

\* the calls in whose _process a list item is being built: the frame is at a
\* match of a ListItem and has not appended its node yet
Items(th) ==
    {d \in 1..Len(stk[th]) : /\ stk[th][d].pc \in {"process", "build", "w_build"}
                             /\ Elements[stk[th][d].el].cls = "ListItem"}

\* the item being built at depth d of the stack: its match, its marker run and
\* its depth in the tree being built (the items it is inside of, itself included)
ItemMo(th, d) == stk[th][d].mos[stk[th][d].i]
ItemRun(th, d) == MarkerAt(stk[th][d].text, ItemMo(th, d).s)[2]
ItemDepth(th, d) == Cardinality({x \in Items(th) : x <= d})

\* the number of elements with the tag in a list of fragments, at any depth
RECURSIVE CountTag(_, _)
CountTag(frags, tag) ==
    IF frags = << >> THEN 0
    ELSE (IF frags[1].k = "el" /\ frags[1].tag = tag THEN 1 ELSE 0)
         + CountTag(frags[1].kids, tag) + CountTag(Tail(frags), tag)

\* P1: each item extends from its marker up to the next line whose marker run
\* equals its own
ItemExtent ==
    \A th \in Threads : \A d \in Items(th) :
       /\ ItemRun(th, d) >= 1
       /\ ItemMo(th, d).e = NextSame(stk[th][d].text, ItemMo(th, d).s)

\* the lines of an item after its first that have a marker run longer than n
MarkedLines(t, mo, n) == {x \in LaterLines(t, mo.s, mo.e) : MarkerAt(t, x)[2] > n}

\* the item at depth d has its content parsed: the call returns its fragments
ItemParsed(th, d) ==
    d + 1 = Len(stk[th]) /\ stk[th][d].pc = "w_build" /\ stk[th][d + 1].pc = "ret"

\* P2: the later lines of an item that have a marker become items inside it,
\* one each
LinesBecomeItems ==
    \A th \in Threads : \A d \in Items(th) :
       ItemParsed(th, d)
       => CountTag(stk[th][d + 1].frags, "li")
             = Cardinality(MarkedLines(stk[th][d].text, ItemMo(th, d), 0))

\* the calls in whose _process a nested list is being built
NestedLists(th) ==
    {d \in 1..Len(stk[th]) : /\ stk[th][d].pc \in {"process", "build", "w_build"}
                             /\ Elements[stk[th][d].el].cls = "NestedList"}

\* P3: a nested list starts at the first later line of the item that has a
\* marker, takes the rest of the item and is ordered or unordered by the
\* marker character of that line
NestedKind ==
    \A th \in Threads : \A d \in NestedLists(th) :
       LET f == stk[th][d]
           mo == f.mos[f.i] IN
       /\ mo.s = MinOf({x \in 1..Len(f.text) : f.text[x] = "\n" /\ MarkerAt(f.text, x)[2] > 0})
       /\ mo.e = Len(f.text)
       /\ Elements[f.el].tag = (IF MarkerAt(f.text, mo.s)[1] = "*" THEN "ul" ELSE "ol")
       /\ d - 1 \in Items(th)

\* the item of the tree the item at depth d is directly in (0: none)
Holder(th, d) == MaxOf({x \in Items(th) : x < d} \cup {0})
RunOrNone(th, d) == IF d = 0 THEN 0 ELSE ItemRun(th, d)

\* the marker runs grow by one from the top-level item down to the item at depth d
StepByOne(th, d) ==
    \A x \in Items(th) : x <= d => ItemRun(th, x) = RunOrNone(th, Holder(th, x)) + 1

\* C22 as stated: P1, the deeper lines of an item become items inside it, P3,
\* and the depth of every item in the output tree equals the length of its
\* marker run.
C22_DepthIsRunLength ==
    /\ ItemExtent
    /\ NestedKind
    /\ \A th \in Threads : \A d \in Items(th) :
          /\ ItemParsed(th, d)
             => CountTag(stk[th][d + 1].frags, "li")
                   >= Cardinality(MarkedLines(stk[th][d].text, ItemMo(th, d), ItemRun(th, d)))
          /\ ItemDepth(th, d) = ItemRun(th, d)

\* C22, amended: P1, P2 and P3 hold for every list; an item is one level below
\* the item it is in whatever the length of its marker run, the top-level
\* items have a run of one, and the depth of an item equals the length of its
\* run where the runs grow by one at each level.
C22_ItemsNestByLine ==
    /\ ItemExtent
    /\ LinesBecomeItems
    /\ NestedKind
    /\ \A th \in Threads : \A d \in Items(th) :
          /\ ItemDepth(th, d) = 1 => ItemRun(th, d) = 1
          /\ StepByOne(th, d) => ItemDepth(th, d) = ItemRun(th, d)

\* a top-level item is parsed that holds a line which skips a level and a
\* later line one less deep: each is an item of a nested list of its own
C22_Witness ==
    \E th \in Threads : \E d \in Items(th) :
       /\ ItemParsed(th, d)
       /\ ItemDepth(th, d) = 1
       /\ MarkedLines(stk[th][d].text, ItemMo(th, d), 2) # {}
       /\ CountTag(stk[th][d + 1].frags, "li") = 2
       /\ CountTag(stk[th][d + 1].frags, "ul") = 2

\* ------------------------------------------------------------------ C24

\* the step in which the call for a paragraph's content returns to
\* Paragraph._build
ParagraphReturns(th) ==
    /\ Len(stk[th]) >= 2
    /\ stk[th][Len(stk[th])].pc = "ret"
    /\ stk[th][Len(stk[th]) - 1].pc = "w_build"
    /\ Elements[stk[th][Len(stk[th]) - 1].el].cls = "Paragraph"
    /\ Len(stk'[th]) = Len(stk[th]) - 1

\* the content that call returns, and the node the paragraph's _process appends
ParagraphContent(th) == stk[th][Len(stk[th])].frags
ParagraphNode(th) ==
    stk'[th][Len(stk[th]) - 1].frags[Len(stk[th][Len(stk[th]) - 1].frags) + 1]

IsP(n) == n.k = "el" /\ n.tag = "p"

\* the fragments of new_content with every paragraph element replaced by its
\* children
RECURSIVE Unwrapped(_)
Unwrapped(frags) ==
    IF frags = << >> THEN << >>
    ELSE (IF IsP(frags[1]) THEN frags[1].kids ELSE << frags[1] >>) \o Unwrapped(Tail(frags))

\* no paragraph element of new_content holds a block-only node or is empty,
\* no two of them are neighbours, and every fragment is kept, in order
SplitAround(content, new) ==
    /\ \A i \in 1..Len(new) :
          IsP(new[i]) => /\ new[i].kids # << >>
                         /\ \A j \in 1..Len(new[i].kids) : ~ BlockOnly(new[i].kids[j])
                         /\ i < Len(new) => ~ IsP(new[i + 1])
    /\ Unwrapped(new) = content

\* a newline that is all there is between two block-only nodes, or before the first
BareNewline(new, i) ==
    /\ new[i] = Txt(<< "\n" >>)
    /\ i < Len(new) /\ BlockOnly(new[i + 1])
    /\ i > 1 => BlockOnly(new[i - 1])

FirstUses == DOMAIN TagsSet(1, made[1].use_additions)
FirstGrammar(n) ==
    ListsMade(1, made[1].use_additions, made[1].no_wiki_monospace)[
        TagsSet(1, made[1].use_additions)[n]]

\* C28 as stated: whatever dialects are constructed later, every element the
\* first dialect uses has the child grammar the first construction gave it.
C28_EarlierGrammarKept ==
    \A n \in FirstUses : lists[child_tags[n]] = FirstGrammar(n)

\* the same where every later dialect was constructed with the arguments of
\* the first
C28_KeptByEqualDialects ==
    (\A k \in 1..Len(made) : made[k] = made[1])
       => \A n \in FirstUses : lists[child_tags[n]] = FirstGrammar(n)

\* ------------------------------------------------------------------ C29

\* how often node v stands in a list of fragments, inside elements included
RECURSIVE Occurs(_, _)
Occurs(frags, v) ==
    IF frags = << >> THEN 0
    ELSE (IF frags[1] = v THEN 1 ELSE 0) + Occurs(frags[1].kids, v) + Occurs(Tail(frags), v)

\* string t holds string p
Holds(t, p) == \E s \in 0..(Len(t) - Len(p)) : StartsAt(t, s, p)

\* the nodes parse gen has stored, and the ids it stored node v under
StoredNodes(gen) == {issued[gen][id] : id \in DOMAIN issued[gen]}
IdsOf(gen, v) == {id \in DOMAIN issued[gen] : issued[gen][id] = v}

\* every node the parse has stored stands in frags once for each id it has
StoredOnce(gen, frags) ==
    \A v \in StoredNodes(gen) : Occurs(frags, v) = Cardinality(IdsOf(gen, v))

\* no text and no attribute value of frags holds a placeholder the parse made
NoneLeft(gen, frags) ==
    \A n \in NodesOf(frags) : \A id \in DOMAIN issued[gen] :
       ~ Holds(n.s, PlaceHolder(id)) /\ ~ Holds(n.attr, PlaceHolder(id))

\* C29 as stated: when a parse is done, every node it stored under a
\* placeholder is in the output exactly once, and no placeholder it generated
\* is left in a text or an attribute value of the output.
C29_StoredOnceNoneLeft ==
    status["t1"] = "done" => StoredOnce(1, out["t1"]) /\ NoneLeft(1, out["t1"])

\* the same of the texts in which no image and no link is opened
C29_WithoutImageOrLink ==
    status["t1"] = "done" /\ ~ Holds(top["t1"].text, << "[", "[" >>)
                          /\ ~ Holds(top["t1"].text, << "{", "{" >>)
       => StoredOnce(1, out["t1"]) /\ NoneLeft(1, out["t1"])

\* ------------------------------------------------------------------ C30

\* C30 as stated: two parses of the same text with the same grammar and
\* callbacks give the same output, whatever ids were generated, also when the
\* text holds the pattern of a placeholder.
C30_SameOutput ==
    \A t1, t2 \in Threads :
       status[t1] = "done" /\ status[t2] = "done" /\ top[t1] = top[t2] => out[t1] = out[t2]

\* the same of the texts that hold no digit, and so no placeholder pattern
C30_SameOutputWithoutDigits ==
    \A t1, t2 \in Threads :
       /\ status[t1] = "done" /\ status[t2] = "done" /\ top[t1] = top[t2]
       /\ ~ InputHasDigit
       => out[t1] = out[t2]

\* ------------------------------------------------------------ ArgParser

\* ' '.join(v) for a list v of strings
RECURSIVE JoinSpaces(_)
JoinSpaces(items) ==
    IF items = << >> THEN << >>
    ELSE IF Len(items) = 1 THEN items[1].s
    ELSE items[1].s \o << " " >> \o JoinSpaces(Tail(items))

\* what force_strings makes of a value: a list becomes one string
Forced(v) == IF v.k = "list" THEN Txt(JoinSpaces(v.kids)) ELSE v

\* ArgParser.__call__ after fragmentize: the last list of frags is the
\* positional arguments, the last other fragment the keyword arguments
ArgResult(frags, force_strings) ==
    LET L == {i \in 1..Len(frags) : frags[i].k = "list"}
        D == {i \in 1..Len(frags) : frags[i].k # "list"}
        positional_args == IF L = {} THEN << >> ELSE frags[MaxOf(L)].kids
        kw_args == IF D = {} THEN << >> ELSE frags[MaxOf(D)].kids
    IN  IF force_strings
        THEN Tp(Ls([i \in 1..Len(positional_args) |-> Forced(positional_args[i])]),
                Dc([i \in 1..Len(kw_args) |-> Kw(kw_args[i].s, Forced(kw_args[i].kids[1]))]))
        ELSE Tp(Ls(positional_args), Dc(kw_args))

\* ArgParser.__call__: fragmentize(arg_string, self.dialect.top_elements, {}, {})
ArgCall(th) ==
    /\ status[th] = "new"
    /\ LET ns == NewStore(th, stores) IN
       /\ stores' = ns.stores
       /\ issued' = Append(issued, EmptyStore)
       /\ stk' = [stk EXCEPT ![th] =
                     << FrameOn(top[th].text, ModuleList("creepy"), TRUE, ns.st,
                                Len(issued) + 1) >>]
       /\ status' = [status EXCEPT ![th] = "run"]
    /\ UNCHANGED << out, multi, func, top, dialect >>

\* ArgParser.__call__ from the return of fragmentize on
ArgFinish(th) ==
    /\ status[th] = "done"
    /\ IF Len(out[th]) <= 2
       THEN /\ out' = [out EXCEPT ![th] = << ArgResult(out[th], top[th].force_strings) >>]
            /\ status' = [status EXCEPT ![th] = "parsed"]
       ELSE /\ out' = out
            /\ status' = [status EXCEPT ![th] = "AssertionError"]
    /\ UNCHANGED << stk, stores, issued, multi, func, top, dialect >>

\* The argument strings: each is made of at most MaxPieces pieces.  A piece is
\* written as its text together with what it says, a key (none for a
\* positional value) and the values it gives
ArgPiece(text, key, vals) == [text |-> text, key |-> key, vals |-> vals]

ArgPieces ==
    {ArgPiece(<< " ", "a" >>, << >>, << << "a" >> >>),
     ArgPiece(<< " ", "'", "c", " ", "d", "'" >>, << >>, << << "c", " ", "d" >> >>),
     ArgPiece(<< " ", "k", "=", "a" >>, << "k" >>, << << "a" >> >>),
     ArgPiece(<< " ", "k", " ", "=", " ", "b" >>, << "k" >>, << << "b" >> >>),
     ArgPiece(<< " ", "j", "=" >>, << "j" >>, << >>),
     ArgPiece(<< " ", "a" >> \o PlaceHolder(<< "9" >>), << >>,
              << << "a" >> \o PlaceHolder(<< "9" >>) >>),
     ArgPiece(<< " ", "'" >> \o PlaceHolder(<< "9" >>) \o << "a", "'" >>, << >>,
              << PlaceHolder(<< "9" >>) \o << "a" >> >>)}

ArgInputs == UNION {[1..k -> ArgPieces] : k \in 0..MaxPieces}

InitArgs ==
    /\ stk = [th \in Threads |-> << >>]
    /\ stores = << >>
    /\ issued = << >>
    /\ out = [th \in Threads |-> << >>]
    /\ multi = TRUE
    /\ ModuleDialect
    /\ func = "none"
    /\ \E ps \in ArgInputs, force \in BOOLEAN :
          top = [th \in Threads |->
                   [text |-> Flatten([i \in 1..Len(ps) |-> ps[i].text]), gram |-> "creepy",
                    context |-> "args", force_strings |-> force, pieces |-> ps]]
    /\ status = [th \in Threads |-> IF th = "t1" THEN "new" ELSE "idle"]

NextArgs ==
    \E th \in Threads :
       \/ ArgCall(th)
       \/ FragLeaf(th)
       \/ FragDrop(th)
       \/ FragMatch(th)
       \/ ProcLead(th)
       \/ ProcBuildContent(th)
       \/ ProcBuildEmpty(th)
       \/ ArgBuild(th)
       \/ QuotedArgAssert(th)
       \/ ProcTrail(th)
       \/ ProcStore(th)
       \/ ProcRerun(th)
       \/ Return(th)
       \/ ArgFinish(th)

SpecArgs == InitArgs /\ [][NextArgs]_vars

\* ------------------------------------------------------------------- C25

\* What an argument string says, read off its pieces: the positional values
\* are those before the first key; an occurrence of a key has the values of
\* its piece and of the positional pieces up to the next key (the empty string
\* when there is none); a key has the values of its occurrences, in order
IsKey(ps, i) == ps[i].key # << >>
NextKey(ps, i) == MinOf({j \in (i + 1)..Len(ps) : IsKey(ps, j)} \cup {Len(ps) + 1})
SaidPositional(ps) == Flatten([i \in 1..(NextKey(ps, 0) - 1) |-> ps[i].vals])
SaidAt(ps, i) ==
    LET v == Flatten([j \in 1..(NextKey(ps, i) - i) |-> ps[i + j - 1].vals])
    IN  IF v = << >> THEN << << >> >> ELSE v
SaidOf(ps, key) == Flatten([i \in 1..Len(ps) |-> IF ps[i].key = key THEN SaidAt(ps, i) ELSE << >>])
SaidKeys(ps) == {ps[i].key : i \in {j \in 1..Len(ps) : IsKey(ps, j)}}

Strings(vs) == [i \in 1..Len(vs) |-> Txt(vs[i])]

\* the tuple ArgParser returns says just that
ReturnsSaid(th) ==
    /\ status[th] = "parsed"
    /\ LET ps == top[th].pieces
           positional_args == out[th][1].kids[1]
           kw_args == out[th][1].kids[2].kids
       IN  /\ positional_args = Ls(Strings(SaidPositional(ps)))
           /\ {kw_args[i].s : i \in 1..Len(kw_args)} = SaidKeys(ps)
           /\ \A i, j \in 1..Len(kw_args) : kw_args[i].s = kw_args[j].s => i = j
           /\ \A i \in 1..Len(kw_args) :
                 LET v == SaidOf(ps, kw_args[i].s)
                 IN  kw_args[i].kids[1] = IF Len(v) = 1 THEN Txt(v[1]) ELSE Ls(Strings(v))

ArgParsed(th) == status[th] \notin {"idle", "new", "run", "done"}

\* C25: ArgParser (force_strings left False) returns the positional arguments
\* in order and a dictionary in which a key that occurs several times, or whose
\* value is followed by positional values, maps to the list of all its values
\* in order of appearance, and a key that occurs once with one value maps to
\* that value.
C25_KeysMapToValues ==
    \A th \in Threads : ArgParsed(th) /\ ~ top[th].force_strings => ReturnsSaid(th)

\* the same, for the argument strings that hold no text of the form <<<9>>>
HoldsPlaceHolder(ps) ==
    \E i \in 1..Len(ps) : place_holder_search(ps[i].text, 0) # NoMatch

C25_WithoutPlaceHolderText ==
    \A th \in Threads :
       ArgParsed(th) /\ ~ top[th].force_strings /\ ~ HoldsPlaceHolder(top[th].pieces)
          => ReturnsSaid(th)

====
